---------------------------- MODULE Spec2Model ----------------------------
(***************************************************************************)
(* Session state machine of the Matrix Synapse admin bot, in its four      *)
(* variants:                                                                *)
(*   "basic"    the bot.js embedded in src/README.md (lines 200-579)        *)
(*   "secure"   src/bot-secure.js                                           *)
(*   "complete" src/unnamed/part_000 (search and detail views, English)     *)
(*   "ru"       src/unnamed/part_001 (search and detail views, Russian)     *)
(*                                                                         *)
(* One action handles one incoming update (a command, a free-text message  *)
(* or a button press) from the first line of its handlers to the last.     *)
(* The remote directory and the allow-list are part of the state; the      *)
(* answer of every remote call (success or failure) is an input.           *)
(*                                                                         *)
(* Strings that the code inspects (account ids, display names, handles,    *)
(* search terms) are sequences of one-character strings.  Callback data    *)
(* is a record [t, id, n]: t is the literal prefix the handler tests       *)
(* ("deactivate", "confirm_deactivate", "deactivate_page", ...), id the    *)
(* account id that follows it, n the page number that follows it.  Matrix  *)
(* ids start with "@", so no id makes "deactivate_<id>" read as            *)
(* "deactivate_menu" or "deactivate_page_<n>".                             *)
(***************************************************************************)
EXTENDS Integers, Sequences, FiniteSets, TLC

VARIABLES
    variant,                \* which bot of the repository runs
    AUTHORIZED_USERS,       \* parsed id allow-list (a set of integers)
    AUTHORIZED_USERNAMES,   \* parsed handle allow-list (a set of strings)
    directory,              \* the remote directory: a sequence of accounts
    userStates,             \* the Map chatId -> session entry
    messages,               \* per chat, the messages that carry a keyboard
    pending                 \* the handlers suspended at an `await`

vars == <<variant, AUTHORIZED_USERS, AUTHORIZED_USERNAMES, directory,
          userStates, messages, pending>>

---------------------------------------------------------------------------
(* Bounds of the model *)

\* Number of conversations.
NumChats == 2

\* Keyboard-carrying messages kept over all chats.
MaxMsgs == 2

\* Accounts in the remote directory.
NumUsers == 13

\* The operator presses user rows among the first MaxRow rows of a keyboard.
MaxRow == 1

\* Accounts the remote side turns into administrators during a run.
MaxPromotions == 1

\* Deactivated accounts the directory may hold.
MaxDeactivated == 2

(* Program constants *)

\* usersPerPage, the default of both keyboard builders.
UsersPerPage == 10

\* getUsers(from = 0, limit = 100)
GetUsersLimit == 100

\* searchUsers fetches { from: 0, limit: 1000 }
SearchSupersetLimit == 1000

\* searchUsers(searchTerm, from = 0, limit = 100)
SearchLimit == 100

\* The longest text the transport takes in one message.
MessageLimit == 4096

Chats == 1..NumChats

---------------------------------------------------------------------------
(* Strings *)

Min(a, b) == IF a < b THEN a ELSE b

\* String.prototype.toLowerCase on the alphabet of the model.
LowerChar(c) ==
    CASE c = "A" -> "a"
      [] c = "B" -> "b"
      [] c = "C" -> "c"
      [] c = "L" -> "l"
      [] c = "M" -> "m"
      [] OTHER -> c

ToLowerCase(s) == [i \in 1..Len(s) |-> LowerChar(s[i])]

\* String.prototype.includes
Includes(s, t) ==
    \E i \in 0..(Len(s) - Len(t)) : SubSeq(s, i + 1, i + Len(t)) = t

\* String.prototype.trim
RECURSIVE TrimLeft(_)
TrimLeft(s) == IF s # <<>> /\ Head(s) = " " THEN TrimLeft(Tail(s)) ELSE s

RECURSIVE TrimRight(_)
TrimRight(s) ==
    IF s # <<>> /\ s[Len(s)] = " " THEN TrimRight(SubSeq(s, 1, Len(s) - 1)) ELSE s

Trim(s) == TrimRight(TrimLeft(s))

\* Array.prototype.slice(start, end) for 0 <= start
Slice(s, start, end) == SubSeq(s, start + 1, Min(end, Len(s)))

\* The absent string (undefined): user.username, user.displayname, msg.text.
NoStr == <<>>

---------------------------------------------------------------------------
(* Authorization gate *)

\* process.env.AUTHORIZED_USERS: the entries are numbers already; parseInt
\* of a trimmed decimal number is that number.
ParseUsers(raw) == {raw[i] : i \in 1..Len(raw)}

\* Mutation: the handle list kept as written, .toLowerCase() left out.
ParseUsernamesAsWritten(raw) == {Trim(raw[i]) : i \in 1..Len(raw)}

\* process.env.AUTHORIZED_USERNAMES.split(',').map(u => u.trim().toLowerCase())
ParseUsernames(raw) == {ToLowerCase(Trim(raw[i])) : i \in 1..Len(raw)}

\* isAuthorized of bot-secure.js, part_000 and part_001: an empty
\* configuration locks the bot down.
IsAuthorizedSecure(user, ids, names) ==
    IF ids = {} /\ names = {} THEN FALSE
    ELSE IF user.id \in ids THEN TRUE
    ELSE IF user.username # NoStr /\ ToLowerCase(user.username) \in names THEN TRUE
    ELSE FALSE

\* isAuthorized of the basic bot.js: an empty configuration allows everyone.
IsAuthorizedBasic(user, ids, names) ==
    IF ids = {} /\ names = {} THEN TRUE
    ELSE IF user.id \in ids THEN TRUE
    ELSE IF user.username # NoStr /\ ToLowerCase(user.username) \in names THEN TRUE
    ELSE FALSE

isAuthorized(v, user, ids, names) ==
    IF v = "basic" THEN IsAuthorizedBasic(user, ids, names)
    ELSE IsAuthorizedSecure(user, ids, names)

\* requireAuth / requireAuthCallback wrap every handler of the three gated
\* bots; the handlers of the basic bot are registered bare and never call
\* isAuthorized.
Gated(v) == v # "basic"

PassesGate(v, user, ids, names) ==
    IF Gated(v) THEN isAuthorized(v, user, ids, names) ELSE TRUE

---------------------------------------------------------------------------
(* Actors, accounts and the remote directory *)

\* msg.from / callbackQuery.from: the numeric id and the optional username.
Actors ==
    { [id |-> 42, username |-> NoStr],
      [id |-> 7,  username |-> <<"A", "L">>] }

\* Who writes in a chat: chat 1 is a group with every actor in it, the
\* other chats are the private chat of actor 42.
Members(c) == IF c = 1 THEN Actors ELSE {a \in Actors : a.id = 42}

Letters == <<"a", "b", "c", "d", "e", "f", "g", "h", "i", "j", "k", "l", "m", "n", "o">>

\* Account i is "@" followed by the i-th letter.
AccountName(i) == <<"@", Letters[i]>>

AccountDisplayName(i) ==
    CASE i = 4 -> <<"M", "a", "c">>
      [] OTHER -> NoStr

\* The remote directory at start: account 1 is an administrator, account 2
\* is deactivated, the others are plain active accounts.
InitialDirectory ==
    [i \in 1..NumUsers |->
        [name |-> AccountName(i), displayname |-> AccountDisplayName(i),
         deactivated |-> (i = 2), admin |-> (i = 1)]]

\* What the remote directory holds when the bot starts: the full directory,
\* a fresh server with the administrator and one deactivated account, and
\* a server that lists no account.
Directories == {InitialDirectory, SubSeq(InitialDirectory, 1, 2), <<>>}

Exists(dir, id) == \E i \in 1..Len(dir) : dir[i].name = id

Lookup(dir, id) == dir[CHOOSE i \in 1..Len(dir) : dir[i].name = id]

NumDeactivated(dir) == Cardinality({i \in 1..Len(dir) : dir[i].deactivated})

NumAdmins(dir) == Cardinality({i \in 1..Len(dir) : dir[i].admin})

\* What the operator types: a term matching every account (to be trimmed),
\* a term matching account 3 by its id and account 4 by its display name, a
\* term matching none, a blank message, and a message without text (a photo).
TermAll == <<" ", "@">>
TermC == <<"C">>
TermNone == <<"z">>
Blank == <<" ">>
Texts == {TermAll, TermC, TermNone, Blank, NoStr}

---------------------------------------------------------------------------
(* MatrixClient: the calls as the remote side answers them *)

\* GET /_synapse/admin/v2/users?from&limit
ListPage(dir, from, limit) == Slice(dir, from, from + limit)

\* getUsers(from = 0, limit = 100) -> response.data.users
getUsers(dir) == ListPage(dir, 0, GetUsersLimit)

\* Mutation: the filter compares the strings as written.
MatchesCaseSensitive(user, searchTerm) ==
    \/ Includes(user.name, searchTerm)
    \/ (user.displayname # NoStr /\ Includes(user.displayname, searchTerm))
    \/ user.name = searchTerm

\* The filter of searchUsers.
Matches(user, searchTerm) ==
    LET searchLower == ToLowerCase(searchTerm) IN
    \/ Includes(ToLowerCase(user.name), searchLower)
    \/ (user.displayname # NoStr /\ Includes(ToLowerCase(user.displayname), searchLower))
    \/ user.name = searchTerm

\* Mutation: the caller's from and limit are sent to the homeserver and the
\* page that comes back is filtered.
searchUsersRemotePage(dir, searchTerm, from, limit) ==
    LET allUsers == ListPage(dir, from, limit)
        IsMatch(u) == Matches(u, searchTerm)
        filteredUsers == SelectSeq(allUsers, IsMatch)
    IN [users |-> filteredUsers, total |-> Len(filteredUsers)]

\* searchUsers(searchTerm, from = 0, limit = 100) -> {users, total}
searchUsers(dir, searchTerm, from, limit) ==
    LET allUsers == ListPage(dir, 0, SearchSupersetLimit)
        IsMatch(u) == Matches(u, searchTerm)
        filteredUsers == SelectSeq(allUsers, IsMatch)
        startIndex == from
        endIndex == Min(startIndex + limit, Len(filteredUsers))
    IN [users |-> Slice(filteredUsers, startIndex, endIndex),
        total |-> Len(filteredUsers)]

\* POST /_synapse/admin/v1/deactivate/<id>: the remote side marks the account.
Deactivated(dir, id) ==
    [i \in 1..Len(dir) |->
        IF dir[i].name = id THEN [dir[i] EXCEPT !.deactivated = TRUE] ELSE dir[i]]

---------------------------------------------------------------------------
(* Keyboards and texts *)

\* callback_data
Btn(t, id, n) == [t |-> t, id |-> id, n |-> n]

\* The text of a message: its kind, the id or term it quotes, the count it shows.
Txt(t, id, n) == [t |-> t, id |-> id, n |-> n]

BackRow == << Btn("back_to_menu", NoStr, 0) >>

createMainKeyboard(v) ==
    IF v = "basic"
    THEN << << Btn("get_users", NoStr, 0) >>,
            << Btn("deactivate_menu", NoStr, 0) >> >>
    ELSE << << Btn("get_users", NoStr, 0) >>,
            << Btn("search_users", NoStr, 0) >>,
            << Btn("deactivate_menu", NoStr, 0) >>,
            << Btn("show_my_info", NoStr, 0) >> >>

\* The prefix of the Previous/Next buttons of the selection keyboard:
\* `users_page_` in bot.js and bot-secure.js, `${actionPrefix}_page_` later.
PagePrefix(v) == IF v \in {"basic", "secure"} THEN "users_page" ELSE "deactivate_page"

\* Mutation: Next shown while endIndex <= length.
NavRowNextOnLastPage(prefix, page, endIndex, len) ==
    (IF page > 0 THEN << Btn(prefix, NoStr, page - 1) >> ELSE <<>>)
    \o (IF endIndex <= len THEN << Btn(prefix, NoStr, page + 1) >> ELSE <<>>)

NavRow(prefix, page, endIndex, len) ==
    (IF page > 0 THEN << Btn(prefix, NoStr, page - 1) >> ELSE <<>>)
    \o (IF endIndex < len THEN << Btn(prefix, NoStr, page + 1) >> ELSE <<>>)

\* Mutation: the rows of the selection keyboard wired to confirm_deactivate_<id>.
createUserSelectionKeyboardDirect(v, users, page) ==
    LET startIndex == page * UsersPerPage
        endIndex == Min(startIndex + UsersPerPage, Len(users))
        pageUsers == Slice(users, startIndex, endIndex)
        userRows == [i \in 1..Len(pageUsers) |->
                        << Btn("confirm_deactivate", pageUsers[i].name, 0) >>]
        navRow == NavRow(PagePrefix(v), page, endIndex, Len(users))
    IN userRows \o (IF navRow # <<>> THEN <<navRow>> ELSE <<>>) \o <<BackRow>>

createUserSelectionKeyboard(v, users, page) ==
    LET startIndex == page * UsersPerPage
        endIndex == Min(startIndex + UsersPerPage, Len(users))
        pageUsers == Slice(users, startIndex, endIndex)
        userRows == [i \in 1..Len(pageUsers) |->
                        << Btn("deactivate", pageUsers[i].name, 0) >>]
        navRow == NavRow(PagePrefix(v), page, endIndex, Len(users))
    IN userRows \o (IF navRow # <<>> THEN <<navRow>> ELSE <<>>) \o <<BackRow>>

ActionButton(user) ==
    IF user.deactivated THEN Btn("noop", NoStr, 0)
    ELSE IF user.admin THEN Btn("noop", NoStr, 0)
    ELSE Btn("deactivate", user.name, 0)

\* Mutation: the page starts one item late.
createSearchResultKeyboardLateStart(users, page) ==
    LET startIndex == page * UsersPerPage + 1
        endIndex == Min(startIndex + UsersPerPage, Len(users))
        pageUsers == Slice(users, startIndex, endIndex)
        userRows == [i \in 1..Len(pageUsers) |->
                        << Btn("userinfo", pageUsers[i].name, 0),
                           ActionButton(pageUsers[i]) >>]
        navRow == NavRow("search_page", page, endIndex, Len(users))
    IN userRows \o (IF navRow # <<>> THEN <<navRow>> ELSE <<>>)
       \o << << Btn("search_users", NoStr, 0), Btn("back_to_menu", NoStr, 0) >> >>

createSearchResultKeyboard(users, page) ==
    LET startIndex == page * UsersPerPage
        endIndex == Min(startIndex + UsersPerPage, Len(users))
        pageUsers == Slice(users, startIndex, endIndex)
        userRows == [i \in 1..Len(pageUsers) |->
                        << Btn("userinfo", pageUsers[i].name, 0),
                           ActionButton(pageUsers[i]) >>]
        navRow == NavRow("search_page", page, endIndex, Len(users))
    IN userRows \o (IF navRow # <<>> THEN <<navRow>> ELSE <<>>)
       \o << << Btn("search_users", NoStr, 0), Btn("back_to_menu", NoStr, 0) >> >>

\* The keyboard under the confirmation prompt.
ConfirmKeyboard(userId) ==
    << << Btn("confirm_deactivate", userId, 0), Btn("deactivate_menu", NoStr, 0) >> >>

\* The first button of the detail view.
DetailButton(v, userInfo, userId) ==
    IF v = "ru"
    THEN (IF userInfo.deactivated THEN Btn("noop", NoStr, 0)
          ELSE IF userInfo.admin THEN Btn("noop", NoStr, 0)
          ELSE Btn("deactivate", userId, 0))
    ELSE (IF userInfo.deactivated THEN Btn("noop", NoStr, 0)
          ELSE Btn("deactivate", userId, 0))

DetailKeyboard(v, userInfo, userId) ==
    << << DetailButton(v, userInfo, userId) >>,
       << Btn("back_to_search", NoStr, 0) >>,
       << Btn("back_to_menu", NoStr, 0) >> >>

NoResultsKeyboard ==
    << << Btn("search_users", NoStr, 0) >>, << Btn("back_to_menu", NoStr, 0) >> >>

AfterDeactivationKeyboard ==
    << << Btn("deactivate_menu", NoStr, 0) >>, << Btn("back_to_menu", NoStr, 0) >> >>

\* String(n).length
Digits(n) == IF n < 10 THEN 1 ELSE IF n < 100 THEN 2 ELSE IF n < 1000 THEN 3 ELSE 4

\* The user listing of get_users, by the length (String.prototype.length)
\* of its pieces: the header
\*   `👥 *Users on Matrix Server* (${users.length} total)\n\n`
\* and for each account the two lines
\*   `${index + 1}. ${user.displayname || user.name}${userType}\n`
\*   `   └ ${user.name} - ${status}\n\n`
\* with the Russian literals in part_001.  No account of the model has a
\* user_type.
ListHeaderLength(v, count) ==
    IF v = "ru" THEN 43 + Digits(count) + 3 ELSE 29 + Digits(count) + 9

StatusLength(v, user) ==
    IF v = "ru" THEN (IF user.deactivated THEN 15 ELSE 9)
    ELSE (IF user.deactivated THEN 13 ELSE 8)

UserTypeLength(v, user) ==
    IF user.admin THEN (IF v = "ru" THEN 16 ELSE 8) ELSE 0

ListEntryLength(v, user, index) ==
    (Digits(index + 1) + 2
        + Len(IF user.displayname # NoStr THEN user.displayname ELSE user.name)
        + UserTypeLength(v, user) + 1)
    + (5 + Len(user.name) + 3 + StatusLength(v, user) + 2)

\* users.forEach over the first n accounts.
RECURSIVE ListEntriesLength(_, _, _)
ListEntriesLength(v, users, n) ==
    IF n = 0 THEN 0
    ELSE ListEntriesLength(v, users, n - 1) + ListEntryLength(v, users[n], n - 1)

UsersListLength(v, users) ==
    ListHeaderLength(v, Len(users)) + ListEntriesLength(v, users, Len(users))

\* if (usersList.length > 4096)
\*     usersList = usersList.substring(0, 4090) + '...\n\n_List truncated_';
\* part_001 cuts above 1000 to 980 and adds '...\n\n_Список сокращен_'.
TruncatedLength(v, len) ==
    IF v = "ru"
    THEN (IF len > 1000 THEN 980 + 22 ELSE len)
    ELSE (IF len > 4096 THEN 4090 + 21 ELSE len)

\* The text of the listing: the count it announces and its length.
ListText(v, users) ==
    [t |-> "users_list", id |-> NoStr, n |-> Len(users),
     len |-> TruncatedLength(v, UsersListLength(v, users))]

\* The buttons of a keyboard.
Buttons(kb) == UNION {{kb[r][k] : k \in 1..Len(kb[r])} : r \in 1..Len(kb)}

---------------------------------------------------------------------------
(* What a handler does: the trace of its calls, in program order *)

NoText == Txt("", NoStr, 0)

Ev(e, op, arg, ok, text, kb) ==
    [e |-> e, op |-> op, arg |-> arg, ok |-> ok, text |-> text, kb |-> kb]

\* bot.answerCallbackQuery
EvAck(how) == Ev("ack", how, NoStr, TRUE, NoText, <<>>)

\* A MatrixClient call and whether the remote side answered it.
EvCall(op, arg, ok) == Ev("call", op, arg, ok, NoText, <<>>)

\* bot.sendMessage ("send"), bot.editMessageText ("edit"),
\* bot.editMessageReplyMarkup ("markup")
EvRender(op, text, kb) == Ev("render", op, NoStr, TRUE, text, kb)

\* A bot.editMessageText that Telegram rejects: the awaited call throws.
EvRejected(op, text, kb) == Ev("rejected", op, NoStr, FALSE, text, kb)

\* console.warn / console.log of the access log and of the deactivation log
EvAudit(what, arg) == Ev("audit", what, arg, TRUE, NoText, <<>>)

\* userStates.set / userStates.delete
MapSet(us, c, val) == [x \in DOMAIN us \cup {c} |-> IF x = c THEN val ELSE us[x]]
MapDelete(us, c) == [x \in DOMAIN us \ {c} |-> us[x]]

\* The message a callback edits, and the message a command sends.
Edited(msgs, c, m, text, kb) == [msgs EXCEPT ![c][m] = [text |-> text, kb |-> kb]]
Sent(msgs, c, text, kb) == [msgs EXCEPT ![c] = Append(@, [text |-> text, kb |-> kb])]

\* The outcome of a handler body: the new session map, messages and
\* directory, its trace, whether it left through a `return` inside the try
\* block, and whether it threw out of the handler.
Res(us, msgs, dir, trace, returned, threw) ==
    [us |-> us, msgs |-> msgs, dir |-> dir, trace |-> trace,
     returned |-> returned, threw |-> threw]

\* catch (error) { editMessageText(`Error: ...`, back_to_menu) } of the
\* callback handler, after the calls made before the throw.
CallbackError(x, trace) ==
    Res(x.us, Edited(x.msgs, x.c, x.m, Txt("error", NoStr, 0), <<BackRow>>), x.dir,
        trace \o << EvRender("edit", Txt("error", NoStr, 0), <<BackRow>>) >>,
        FALSE, FALSE)

---------------------------------------------------------------------------
(* The branches of the callback_query handler.  x is the invocation:       *)
(* x.v the variant, x.c the chat, x.m the message pressed, x.data the      *)
(* callback data, x.from the actor, x.ok the answer of the remote call,    *)
(* x.us / x.msgs / x.dir the state when the handler starts.                *)

ShowMyInfoBranch(x) ==
    LET text == Txt("my_info", NoStr, x.from.id) IN
    Res(x.us, Edited(x.msgs, x.c, x.m, text, <<BackRow>>), x.dir,
        << EvRender("edit", text, <<BackRow>>) >>, FALSE, FALSE)

\* Mutation: the flag is added to the entry the chat already has.
SearchUsersBranchAddsFlag(x) ==
    LET text == Txt("search_prompt", NoStr, 0)
        state == IF x.c \in DOMAIN x.us
                 THEN [f \in DOMAIN x.us[x.c] \cup {"waiting_for_search"} |->
                          IF f = "waiting_for_search" THEN TRUE ELSE x.us[x.c][f]]
                 ELSE [waiting_for_search |-> TRUE]
    IN Res(MapSet(x.us, x.c, state),
           Edited(x.msgs, x.c, x.m, text, <<BackRow>>), x.dir,
           << EvRender("edit", text, <<BackRow>>) >>, FALSE, FALSE)

SearchUsersBranch(x) ==
    LET text == Txt("search_prompt", NoStr, 0) IN
    Res(MapSet(x.us, x.c, [waiting_for_search |-> TRUE]),
        Edited(x.msgs, x.c, x.m, text, <<BackRow>>), x.dir,
        << EvRender("edit", text, <<BackRow>>) >>, FALSE, FALSE)

SearchPageBranch(x) ==
    LET page == x.data.n IN
    IF x.c \in DOMAIN x.us /\ "search_results" \in DOMAIN x.us[x.c]
    THEN LET state == [x.us[x.c] EXCEPT !.search_page = page]
             kb == createSearchResultKeyboard(state.search_results, page)
         IN Res(MapSet(x.us, x.c, state),
                [x.msgs EXCEPT ![x.c][x.m].kb = kb], x.dir,
                << EvRender("markup", NoText, kb) >>, FALSE, FALSE)
    ELSE Res(x.us, x.msgs, x.dir, <<>>, FALSE, FALSE)

\* Mutation: a failed getUserInfo clears the session of the chat, as a
\* failed search does.
UserInfoBranchClearsOnFailure(x) ==
    LET userId == x.data.id
        found == x.ok /\ Exists(x.dir, userId)
        call == EvCall("getUserInfo", userId, found)
    IN IF found
       THEN LET userInfo == Lookup(x.dir, userId)
                text == Txt("user_info", userInfo.name, 0)
                kb == DetailKeyboard(x.v, userInfo, userId)
            IN Res(x.us, Edited(x.msgs, x.c, x.m, text, kb), x.dir,
                   << call, EvRender("edit", text, kb) >>, FALSE, FALSE)
       ELSE LET text == Txt("user_info_error", NoStr, 0) IN
            Res(MapDelete(x.us, x.c), Edited(x.msgs, x.c, x.m, text, <<BackRow>>), x.dir,
                << call, EvRender("edit", text, <<BackRow>>) >>, FALSE, FALSE)

UserInfoBranch(x) ==
    LET userId == x.data.id
        found == x.ok /\ Exists(x.dir, userId)
        call == EvCall("getUserInfo", userId, found)
    IN IF found
       THEN LET userInfo == Lookup(x.dir, userId)
                text == Txt("user_info", userInfo.name, 0)
                kb == DetailKeyboard(x.v, userInfo, userId)
            IN Res(x.us, Edited(x.msgs, x.c, x.m, text, kb), x.dir,
                   << call, EvRender("edit", text, kb) >>, FALSE, FALSE)
       ELSE LET text == Txt("user_info_error", NoStr, 0) IN
            Res(x.us, Edited(x.msgs, x.c, x.m, text, <<BackRow>>), x.dir,
                << call, EvRender("edit", text, <<BackRow>>) >>, FALSE, FALSE)

BackToSearchBranch(x) ==
    IF x.c \in DOMAIN x.us /\ "search_results" \in DOMAIN x.us[x.c]
    THEN LET state == x.us[x.c]
             text == Txt("search_results", state.search_term, Len(state.search_results))
             kb == createSearchResultKeyboard(state.search_results, state.search_page)
         IN Res(x.us, Edited(x.msgs, x.c, x.m, text, kb), x.dir,
                << EvRender("edit", text, kb) >>, FALSE, FALSE)
    ELSE LET text == Txt("menu", NoStr, 0)
             kb == createMainKeyboard(x.v)
         IN Res(x.us, Edited(x.msgs, x.c, x.m, text, kb), x.dir,
                << EvRender("edit", text, kb) >>, FALSE, FALSE)

GetUsersBranch(x) ==
    LET fetching == EvRender("edit", Txt("fetching", NoStr, 0), <<>>)
        call == EvCall("getUsers", NoStr, x.ok)
        users == getUsers(x.dir)
    IN IF ~x.ok THEN CallbackError(x, << fetching, call >>)
       ELSE IF Len(users) = 0
       THEN LET text == Txt("no_users", NoStr, 0) IN
            Res(x.us, Edited(x.msgs, x.c, x.m, text, <<BackRow>>), x.dir,
                << fetching, call, EvRender("edit", text, <<BackRow>>) >>, TRUE, FALSE)
       ELSE LET text == ListText(x.v, users) IN
            Res(x.us, Edited(x.msgs, x.c, x.m, text, <<BackRow>>), x.dir,
                << fetching, call, EvRender("edit", text, <<BackRow>>) >>, FALSE, FALSE)

\* The filter of deactivate_menu: `!user.deactivated && !user.admin` in
\* part_000 and part_001, `!user.deactivated` in bot.js and bot-secure.js.
IsCandidate(v, user) ==
    IF v \in {"complete", "ru"} THEN ~user.deactivated /\ ~user.admin
    ELSE ~user.deactivated

\* Mutation: the session is reset before the list is asked for, so a
\* failed getUsers leaves the reset entry behind.
DeactivateMenuBranchWritesFirst(x) ==
    LET loading == EvRender("edit", Txt("loading", NoStr, 0), <<>>)
        call == EvCall("getUsers", NoStr, x.ok)
        Keep(u) == IsCandidate(x.v, u)
        deactivatableUsers == SelectSeq(getUsers(x.dir), Keep)
        y == [x EXCEPT !.us = MapSet(x.us, x.c, [users |-> <<>>, page |-> 0])]
    IN IF ~x.ok THEN CallbackError(y, << loading, call >>)
       ELSE IF Len(deactivatableUsers) = 0
       THEN LET text == Txt("no_candidates", NoStr, 0) IN
            Res(x.us, Edited(x.msgs, x.c, x.m, text, <<BackRow>>), x.dir,
                << loading, call, EvRender("edit", text, <<BackRow>>) >>, TRUE, FALSE)
       ELSE LET text == Txt("select", NoStr, 0)
                kb == createUserSelectionKeyboard(x.v, deactivatableUsers, 0)
            IN Res(MapSet(x.us, x.c, [users |-> deactivatableUsers, page |-> 0]),
                   Edited(x.msgs, x.c, x.m, text, kb), x.dir,
                   << loading, call, EvRender("edit", text, kb) >>, FALSE, FALSE)

DeactivateMenuBranch(x) ==
    LET loading == EvRender("edit", Txt("loading", NoStr, 0), <<>>)
        call == EvCall("getUsers", NoStr, x.ok)
        Keep(u) == IsCandidate(x.v, u)
        deactivatableUsers == SelectSeq(getUsers(x.dir), Keep)
    IN IF ~x.ok THEN CallbackError(x, << loading, call >>)
       ELSE IF Len(deactivatableUsers) = 0
       THEN LET text == Txt("no_candidates", NoStr, 0) IN
            Res(x.us, Edited(x.msgs, x.c, x.m, text, <<BackRow>>), x.dir,
                << loading, call, EvRender("edit", text, <<BackRow>>) >>, TRUE, FALSE)
       ELSE LET text == Txt("select", NoStr, 0)
                kb == createUserSelectionKeyboard(x.v, deactivatableUsers, 0)
            IN Res(MapSet(x.us, x.c, [users |-> deactivatableUsers, page |-> 0]),
                   Edited(x.msgs, x.c, x.m, text, kb), x.dir,
                   << loading, call, EvRender("edit", text, kb) >>, FALSE, FALSE)

\* users_page_<n> (bot.js, bot-secure.js) / deactivate_page_<n> (part_000, part_001)
UsersPageBranch(x) ==
    LET page == x.data.n IN
    IF x.c \in DOMAIN x.us /\ "users" \in DOMAIN x.us[x.c]
    THEN LET state == [x.us[x.c] EXCEPT !.page = page]
             kb == createUserSelectionKeyboard(x.v, state.users, page)
         IN Res(MapSet(x.us, x.c, state),
                [x.msgs EXCEPT ![x.c][x.m].kb = kb], x.dir,
                << EvRender("markup", NoText, kb) >>, FALSE, FALSE)
    ELSE Res(x.us, x.msgs, x.dir, <<>>, FALSE, FALSE)

\* Mutation: the select step looks the account up before it prompts.
SelectBranchLookup(x) ==
    LET userId == x.data.id
        text == Txt("confirm", userId, 0)
        kb == ConfirmKeyboard(userId)
    IN Res(x.us, Edited(x.msgs, x.c, x.m, text, kb), x.dir,
           << EvCall("getUserInfo", userId, x.ok), EvRender("edit", text, kb) >>,
           FALSE, FALSE)

\* deactivate_<id>: the confirmation prompt.
SelectBranch(x) ==
    LET userId == x.data.id
        text == Txt("confirm", userId, 0)
        kb == ConfirmKeyboard(userId)
    IN Res(x.us, Edited(x.msgs, x.c, x.m, text, kb), x.dir,
           << EvRender("edit", text, kb) >>, FALSE, FALSE)

\* The deactivation log entry, written by every bot but bot.js.
DeactivationLog(v, userId) ==
    IF v = "basic" THEN <<>> ELSE << EvAudit("deactivated", userId) >>

\* Mutation: no try/catch around the deactivation call, so a failure lands
\* in the catch of the whole handler.
ConfirmBranchOuterCatch(x) ==
    LET userId == x.data.id
        deactivating == EvRender("edit", Txt("deactivating", userId, 0), <<>>)
        done == x.ok /\ Exists(x.dir, userId)
        call == EvCall("deactivateUser", userId, done)
    IN IF done
       THEN LET text == Txt("deactivated", userId, 0) IN
            Res(x.us, Edited(x.msgs, x.c, x.m, text, AfterDeactivationKeyboard),
                Deactivated(x.dir, userId),
                << deactivating, call >> \o DeactivationLog(x.v, userId)
                   \o << EvRender("edit", text, AfterDeactivationKeyboard) >>,
                FALSE, FALSE)
       ELSE CallbackError(x, << deactivating, call >>)

\* confirm_deactivate_<id>.  The success message is edited inside the try
\* block of the deactivation call, so when Telegram rejects that edit
\* (x.sent is FALSE) the catch of the same block renders the failure.
ConfirmBranch(x) ==
    LET userId == x.data.id
        deactivating == EvRender("edit", Txt("deactivating", userId, 0), <<>>)
        done == x.ok /\ Exists(x.dir, userId)
        call == EvCall("deactivateUser", userId, done)
        failed == Txt("deactivation_failed", NoStr, 0)
    IN IF done /\ x.sent
       THEN LET text == Txt("deactivated", userId, 0) IN
            Res(x.us, Edited(x.msgs, x.c, x.m, text, AfterDeactivationKeyboard),
                Deactivated(x.dir, userId),
                << deactivating, call >> \o DeactivationLog(x.v, userId)
                   \o << EvRender("edit", text, AfterDeactivationKeyboard) >>,
                FALSE, FALSE)
       ELSE IF done
       THEN Res(x.us, Edited(x.msgs, x.c, x.m, failed, AfterDeactivationKeyboard),
                Deactivated(x.dir, userId),
                << deactivating, call >> \o DeactivationLog(x.v, userId)
                   \o << EvRejected("edit", Txt("deactivated", userId, 0),
                                    AfterDeactivationKeyboard),
                         EvRender("edit", failed, AfterDeactivationKeyboard) >>,
                FALSE, FALSE)
       ELSE Res(x.us, Edited(x.msgs, x.c, x.m, failed, AfterDeactivationKeyboard), x.dir,
                << deactivating, call,
                   EvRender("edit", failed, AfterDeactivationKeyboard) >>,
                FALSE, FALSE)

\* Mutation: the menu is rendered and the session entry stays.
BackToMenuBranchKeepsEntry(x) ==
    LET text == Txt("menu", NoStr, 0)
        kb == createMainKeyboard(x.v)
    IN Res(x.us, Edited(x.msgs, x.c, x.m, text, kb), x.dir,
           << EvRender("edit", text, kb) >>, FALSE, FALSE)

\* Mutation: back_to_menu empties the whole session map.
BackToMenuBranchClearsAll(x) ==
    LET text == Txt("menu", NoStr, 0)
        kb == createMainKeyboard(x.v)
    IN Res(<<>>, Edited(x.msgs, x.c, x.m, text, kb), x.dir,
           << EvRender("edit", text, kb) >>, FALSE, FALSE)

BackToMenuBranch(x) ==
    LET text == Txt("menu", NoStr, 0)
        kb == createMainKeyboard(x.v)
    IN Res(MapDelete(x.us, x.c), Edited(x.msgs, x.c, x.m, text, kb), x.dir,
           << EvRender("edit", text, kb) >>, FALSE, FALSE)

\* `noop`: part_000 and part_001 return at once; the chain of the other
\* bots has no such branch and falls through.
NoopBranch(x) ==
    Res(x.us, x.msgs, x.dir, <<>>, x.v \in {"complete", "ru"}, FALSE)

\* A token no branch of the chain matches.
NoBranch(x) == Res(x.us, x.msgs, x.dir, <<>>, FALSE, FALSE)

\* The if / else-if chain on `data`.
Branch(x) ==
    LET t == x.data.t
        full == x.v \in {"complete", "ru"}
    IN CASE t = "show_my_info" /\ x.v # "basic" -> ShowMyInfoBranch(x)
         [] t = "search_users" /\ x.v # "basic" -> SearchUsersBranch(x)
         [] t = "search_page" /\ full -> SearchPageBranch(x)
         [] t = "userinfo" /\ full -> UserInfoBranch(x)
         [] t = "back_to_search" /\ full -> BackToSearchBranch(x)
         [] t = "get_users" -> GetUsersBranch(x)
         [] t = "deactivate_menu" -> DeactivateMenuBranch(x)
         [] t = PagePrefix(x.v) -> UsersPageBranch(x)
         [] t = "deactivate" -> SelectBranch(x)
         [] t = "confirm_deactivate" -> ConfirmBranch(x)
         [] t = "back_to_menu" -> BackToMenuBranch(x)
         [] t = "noop" -> NoopBranch(x)
         [] OTHER -> NoBranch(x)

---------------------------------------------------------------------------
(* The gate and the registered handlers *)

\* logUnauthorizedAccess + sendUnauthorizedMessage
Denial == << EvAudit("unauthorized", NoStr),
             EvRender("send", Txt("access_denied", NoStr, 0), <<>>) >>

\* requireAuthCallback(handler) in the gated bots; the bare handler in
\* bot.js.  bot.js and bot-secure.js answer the callback query after the
\* try/catch, bot-secure.js, part_000 and part_001 before it.
CallbackQuery(x) ==
    IF ~PassesGate(x.v, x.from, x.ids, x.names)
    THEN Res(x.us, x.msgs, x.dir, Denial \o << EvAck("Access denied") >>, TRUE, FALSE)
    ELSE LET b == Branch(x)
             before == IF Gated(x.v)
                       THEN << EvAudit("authorized", NoStr), EvAck("") >>
                       ELSE <<>>
             after == IF x.v \in {"basic", "secure"} /\ ~b.returned
                      THEN << EvAck("") >>
                      ELSE <<>>
         IN [b EXCEPT !.trace = before \o @ \o after]

\* The search shared by /search and by the free-text handler; only the
\* latter clears the session when nothing is found or the call fails.
SearchFlow(x, searchTerm, clear) ==
    LET searching == EvRender("send", Txt("searching", searchTerm, 0), <<>>)
        call == EvCall("searchUsers", searchTerm, x.ok)
        searchResults == searchUsers(x.dir, searchTerm, 0, SearchLimit)
        users == searchResults.users
    IN IF ~x.ok
       THEN LET text == Txt("search_failed", NoStr, 0) IN
            Res(IF clear THEN MapDelete(x.us, x.c) ELSE x.us,
                Sent(x.msgs, x.c, text, <<BackRow>>), x.dir,
                << searching, call, EvRender("edit", text, <<BackRow>>) >>, FALSE, FALSE)
       ELSE IF Len(users) = 0
       THEN LET text == Txt("no_results", searchTerm, 0) IN
            Res(IF clear THEN MapDelete(x.us, x.c) ELSE x.us,
                Sent(x.msgs, x.c, text, NoResultsKeyboard), x.dir,
                << searching, call, EvRender("edit", text, NoResultsKeyboard) >>,
                TRUE, FALSE)
       ELSE LET text == Txt("search_results", searchTerm, searchResults.total)
                kb == createSearchResultKeyboard(users, 0)
            IN Res(MapSet(x.us, x.c, [search_results |-> users,
                                      search_term |-> searchTerm,
                                      search_page |-> 0]),
                   Sent(x.msgs, x.c, text, kb), x.dir,
                   << searching, call, EvRender("edit", text, kb) >>, FALSE, FALSE)

Commands == {"/start", "/help", "/menu", "/whoami", "/search"}

\* The commands a bot registers with bot.onText.
Registered(v) ==
    CASE v = "basic" -> {"/start", "/help", "/menu"}
      [] v = "secure" -> {"/start", "/help", "/menu", "/whoami"}
      [] OTHER -> Commands

\* The bodies of the bot.onText handlers.  part_000's requireAuth calls
\* handler(msg) without the regexp match, so its /search body throws on
\* match[1] before it sends anything.
CommandBody(x) ==
    CASE x.cmd = "/start" ->
            Res(x.us, Sent(x.msgs, x.c, Txt("welcome", NoStr, 0), createMainKeyboard(x.v)),
                x.dir,
                << EvRender("send", Txt("welcome", NoStr, 0), createMainKeyboard(x.v)) >>,
                FALSE, FALSE)
      [] x.cmd = "/help" ->
            Res(x.us, x.msgs, x.dir,
                << EvRender("send", Txt("help", NoStr, 0), <<>>) >>, FALSE, FALSE)
      [] x.cmd = "/menu" ->
            Res(x.us, Sent(x.msgs, x.c, Txt("menu", NoStr, 0), createMainKeyboard(x.v)),
                x.dir,
                << EvRender("send", Txt("menu", NoStr, 0), createMainKeyboard(x.v)) >>,
                FALSE, FALSE)
      [] x.cmd = "/whoami" ->
            Res(x.us, x.msgs, x.dir,
                << EvRender("send", Txt("whoami", NoStr, x.from.id), <<>>) >>,
                FALSE, FALSE)
      [] x.cmd = "/search" ->
            IF x.v = "complete"
            THEN Res(x.us, x.msgs, x.dir, <<>>, FALSE, TRUE)
            ELSE SearchFlow(x, Trim(x.text), FALSE)

\* Mutation: every text that is no command is searched for, whatever the
\* session holds.
MessageBodyAlwaysSearches(x) ==
    LET nothing == Res(x.us, x.msgs, x.dir, <<>>, TRUE, FALSE)
    IN IF x.cmd # "" THEN nothing
       ELSE IF x.text = NoStr THEN nothing
       ELSE IF Trim(x.text) = <<>>
       THEN Res(x.us, x.msgs, x.dir,
                << EvRender("send", Txt("invalid_term", NoStr, 0), <<>>) >>, TRUE, FALSE)
       ELSE SearchFlow(x, Trim(x.text), TRUE)

\* Mutation: a blank term ends the search-input mode, as a search without
\* results does.
MessageBodyBlankClears(x) ==
    LET waiting == x.c \in DOMAIN x.us /\ "waiting_for_search" \in DOMAIN x.us[x.c]
        nothing == Res(x.us, x.msgs, x.dir, <<>>, TRUE, FALSE)
    IN IF x.cmd # "" THEN nothing
       ELSE IF x.v = "ru" /\ x.text = NoStr THEN nothing
       ELSE IF ~waiting THEN nothing
       ELSE IF x.text = NoStr THEN Res(x.us, x.msgs, x.dir, <<>>, FALSE, TRUE)
       ELSE IF Trim(x.text) = <<>>
       THEN Res(MapDelete(x.us, x.c), x.msgs, x.dir,
                << EvRender("send", Txt("invalid_term", NoStr, 0), <<>>) >>, TRUE, FALSE)
       ELSE SearchFlow(x, Trim(x.text), TRUE)

\* The body of the bot.on('message') handler of part_000 and part_001.
\* x.text is msg.text, x.cmd is "" unless the text is a command.
MessageBody(x) ==
    LET waiting == x.c \in DOMAIN x.us /\ "waiting_for_search" \in DOMAIN x.us[x.c]
        nothing == Res(x.us, x.msgs, x.dir, <<>>, TRUE, FALSE)
    IN IF x.cmd # "" THEN nothing
       ELSE IF x.v = "ru" /\ x.text = NoStr THEN nothing
       ELSE IF ~waiting THEN nothing
       ELSE IF x.text = NoStr THEN Res(x.us, x.msgs, x.dir, <<>>, FALSE, TRUE)
       ELSE IF Trim(x.text) = <<>>
       THEN Res(x.us, x.msgs, x.dir,
                << EvRender("send", Txt("invalid_term", NoStr, 0), <<>>) >>, TRUE, FALSE)
       ELSE SearchFlow(x, Trim(x.text), TRUE)

\* Mutation: the wrapper hands every message to the handler.
RequireAuthOpen(x, body) == body

\* requireAuth(handler)
RequireAuth(x, body) ==
    IF ~isAuthorized(x.v, x.from, x.ids, x.names)
    THEN Res(x.us, x.msgs, x.dir, Denial, TRUE, FALSE)
    ELSE [body EXCEPT !.trace = << EvAudit("authorized", NoStr) >> \o @]

\* One incoming message: the 'message' listener (part_000, part_001), then
\* the bot.onText handler its text matches.  The second handler starts from
\* what the first left.
OnMessage(x) ==
    LET full == x.v \in {"complete", "ru"}
        first == IF full THEN RequireAuth(x, MessageBody(x))
                 ELSE Res(x.us, x.msgs, x.dir, <<>>, FALSE, FALSE)
        y == [x EXCEPT !.us = first.us, !.msgs = first.msgs, !.dir = first.dir]
        second == IF x.cmd \in Registered(x.v)
                  THEN (IF Gated(x.v) THEN RequireAuth(y, CommandBody(y))
                        ELSE CommandBody(y))
                  ELSE Res(y.us, y.msgs, y.dir, <<>>, FALSE, FALSE)
    IN [second EXCEPT !.trace = first.trace \o @,
                      !.threw = first.threw \/ @]

---------------------------------------------------------------------------
(* The state machine *)

NoData == Btn("", NoStr, 0)

\* The configurations the bot is started with: no allow-list, an id
\* allow-list, a handle allow-list written in mixed case with a blank.
EnvNone == [users |-> <<>>, usernames |-> <<>>]
EnvIds == [users |-> <<42>>, usernames |-> <<>>]
EnvNames == [users |-> <<>>, usernames |-> << <<" ", "A", "l">> >>]

\* The deployments: each bot without an allow-list, and with one.
Deployments ==
    { <<"basic", EnvNone>>, <<"secure", EnvNone>>, <<"complete", EnvNone>>, <<"ru", EnvNone>>,
      <<"basic", EnvIds>>, <<"secure", EnvIds>>, <<"complete", EnvIds>>, <<"ru", EnvNames>> }

Init ==
    /\ \E d \in Deployments :
          /\ variant = d[1]
          /\ AUTHORIZED_USERS = ParseUsers(d[2].users)
          /\ AUTHORIZED_USERNAMES = ParseUsernames(d[2].usernames)
    /\ directory \in Directories
    /\ userStates = <<>>
    /\ messages = [c \in Chats |-> <<>>]
    /\ pending = {}

Invocation(c, from, m, data, cmd, text, ok) ==
    [v |-> variant, ids |-> AUTHORIZED_USERS, names |-> AUTHORIZED_USERNAMES,
     c |-> c, from |-> from, m |-> m, data |-> data, cmd |-> cmd, text |-> text,
     ok |-> ok, sent |-> TRUE,
     us |-> userStates, msgs |-> messages, dir |-> directory]

RECURSIVE SumLen(_, _)
SumLen(msgs, n) == IF n = 0 THEN 0 ELSE Len(msgs[n]) + SumLen(msgs, n - 1)

\* The keyboard-carrying messages of all chats.
TotalMsgs(msgs) == SumLen(msgs, NumChats)

\* The state after the handlers of an update ran to their end, within the
\* bounds of the model.
Commit(r) ==
    /\ TotalMsgs(r.msgs) <= MaxMsgs
    /\ NumDeactivated(r.dir) <= MaxDeactivated
    /\ userStates' = r.us
    /\ messages' = r.msgs
    /\ directory' = r.dir
    /\ UNCHANGED <<variant, AUTHORIZED_USERS, AUTHORIZED_USERNAMES, pending>>

\* The terms typed after /search.
CommandArgs(cmd) == IF cmd = "/search" THEN {TermAll, TermNone} ELSE {NoStr}

\* A command message: /start, /help, /menu, /whoami, /search <term>.
Command(c, from, cmd, arg, ok) ==
    OnMessage(Invocation(c, from, 0, NoData, cmd, arg, ok))

HandleCommand ==
    \E c \in Chats, cmd \in Commands, ok \in BOOLEAN :
        \E from \in Members(c), arg \in CommandArgs(cmd) :
            /\ cmd \in Commands
            /\ Commit(Command(c, from, cmd, arg, ok))

\* A message that is no command: a text, or a message without text.
Text(c, from, text, ok) ==
    OnMessage(Invocation(c, from, 0, NoData, "", text, ok))

HandleText ==
    \E c \in Chats, text \in Texts, ok \in BOOLEAN :
        \E from \in Members(c) :
        /\ text \in Texts
        /\ Commit(Text(c, from, text, ok))

\* The buttons the operator presses on a keyboard: every button outside the
\* user rows, and the buttons of the first MaxRow user rows.
Pressable(kb) ==
    UNION { {kb[r][k] : k \in 1..Len(kb[r])} :
            r \in {q \in 1..Len(kb) : q <= MaxRow \/ kb[q][1].t \notin {"deactivate", "userinfo"}} }

\* A button pressed on message m of the chat.
Callback(c, from, m, data, ok) ==
    CallbackQuery(Invocation(c, from, m, data, "", NoStr, ok))

HandleCallback ==
    \E c \in Chats, ok \in BOOLEAN :
        \E from \in Members(c), m \in 1..Len(messages[c]) :
            \E data \in Pressable(messages[c][m].kb) :
                /\ data \in Buttons(messages[c][m].kb)
                /\ Commit(Callback(c, from, m, data, ok))

\* The remote side makes an account an administrator (another admin, another tool).
DirectoryPromote ==
    /\ NumAdmins(directory) < 1 + MaxPromotions
    /\ \E i \in 3..Min(2 + MaxPromotions, Len(directory)) :
          /\ ~directory[i].admin
          /\ directory' = [directory EXCEPT ![i].admin = TRUE]
    /\ UNCHANGED <<variant, AUTHORIZED_USERS, AUTHORIZED_USERNAMES, userStates, messages,
                   pending>>

Next ==
    \/ HandleCommand
    \/ HandleText
    \/ HandleCallback
    \/ DirectoryPromote

Spec == Init /\ [][Next]_vars

---------------------------------------------------------------------------
(* The keyboard builders on their own: a session whose list grows to       *)
(* MaxItems accounts and whose page is set to any number up to MaxPage,    *)
(* the one message of chat 1 rendered from it as the page handlers do.     *)

\* Accounts of the list.
MaxItems == 25

\* Page numbers a page button carries.
MaxPage == 3

PagingAccount(i) ==
    [name |-> <<"@", Letters[((i - 1) \div 15) + 1], Letters[((i - 1) % 15) + 1]>>,
     displayname |-> NoStr,
     deactivated |-> (i % 7 = 0), admin |-> (i % 5 = 0)]

\* The list and the page of a session entry of either kind.
PagingList(state) ==
    IF "users" \in DOMAIN state THEN state.users ELSE state.search_results

PagingPage(state) ==
    IF "users" \in DOMAIN state THEN state.page ELSE state.search_page

PagingState(kind, list, page) ==
    IF kind = "users" THEN [users |-> list, page |-> page]
    ELSE [search_results |-> list, search_term |-> TermAll, search_page |-> page]

\* The keyboard the page handlers render from the session entry.
PagingKeyboard(v, state) ==
    IF "users" \in DOMAIN state
    THEN createUserSelectionKeyboard(v, state.users, state.page)
    ELSE createSearchResultKeyboard(state.search_results, state.search_page)

PagingShow(state) ==
    /\ userStates' = (1 :> state)
    /\ messages' = [c \in Chats |->
                      IF c = 1
                      THEN << [text |-> Txt("list", NoStr, Len(PagingList(state))),
                               kb |-> PagingKeyboard(variant, state)] >>
                      ELSE <<>>]
    /\ UNCHANGED <<variant, AUTHORIZED_USERS, AUTHORIZED_USERNAMES, directory, pending>>

PagingInit ==
    /\ \E d \in Deployments :
          /\ variant = d[1]
          /\ AUTHORIZED_USERS = ParseUsers(d[2].users)
          /\ AUTHORIZED_USERNAMES = ParseUsernames(d[2].usernames)
    /\ directory = InitialDirectory
    /\ userStates = (1 :> PagingState("users", <<>>, 0))
    /\ messages = [c \in Chats |->
                     IF c = 1
                     THEN << [text |-> Txt("list", NoStr, 0),
                              kb |-> createUserSelectionKeyboard(variant, <<>>, 0)] >>
                     ELSE <<>>]
    /\ pending = {}

\* One more account in the list.
PagingAppend ==
    LET state == userStates[1]
        list == PagingList(state)
        kind == IF "users" \in DOMAIN state THEN "users" ELSE "search"
    IN /\ Len(list) < MaxItems
       /\ PagingShow(PagingState(kind, Append(list, PagingAccount(Len(list) + 1)),
                                 PagingPage(state)))

\* A page button carrying page n.
PagingTurn ==
    LET state == userStates[1]
        kind == IF "users" \in DOMAIN state THEN "users" ELSE "search"
    IN \E n \in 0..MaxPage :
          /\ n # PagingPage(state)
          /\ PagingShow(PagingState(kind, PagingList(state), n))

\* The same list shown by the other builder (part_000, part_001).
PagingSwitch ==
    LET state == userStates[1]
        other == IF "users" \in DOMAIN state THEN "search" ELSE "users"
    IN /\ variant \in {"complete", "ru"}
       /\ PagingShow(PagingState(other, PagingList(state), PagingPage(state)))

PagingNext ==
    \/ PagingAppend
    \/ PagingTurn
    \/ PagingSwitch

PagingSpec == PagingInit /\ [][PagingNext]_vars

---------------------------------------------------------------------------
(* searchUsers on its own: the remote directory is filled from a pool of   *)
(* accounts while chat 1 awaits a search term, then the operator's text is *)
(* searched for by the 'message' listener of part_000 / part_001.          *)

\* Accounts of the directory that is searched.
MaxAccounts == 3

\* An id and a display name that hold the same letters, a display name that
\* holds them in another case, an account without display name, and an id
\* written in upper case.
SearchPool ==
    { [name |-> <<"@", "c", "a">>, displayname |-> <<"B">>,
       deactivated |-> FALSE, admin |-> FALSE],
      [name |-> <<"@", "m", "b">>, displayname |-> <<"M", "a", " ", "C", "a", "l">>,
       deactivated |-> FALSE, admin |-> FALSE],
      [name |-> <<"@", "b", "c">>, displayname |-> NoStr,
       deactivated |-> TRUE, admin |-> FALSE],
      [name |-> <<"@", "C", "a">>, displayname |-> NoStr,
       deactivated |-> FALSE, admin |-> TRUE] }

\* What the operator types as a search term.
SearchTerms ==
    { <<"c", "a">>, <<"C", "A">>, <<"@", "c", "a">>, <<"@", "C", "a">>,
      <<" ", "a", " ", "c", " ">>, <<"z">> }

SearchInit ==
    /\ \E d \in Deployments :
          /\ d[1] \in {"complete", "ru"}
          /\ variant = d[1]
          /\ AUTHORIZED_USERS = ParseUsers(d[2].users)
          /\ AUTHORIZED_USERNAMES = ParseUsernames(d[2].usernames)
    /\ directory = <<>>
    /\ userStates = (1 :> [waiting_for_search |-> TRUE])
    /\ messages = [c \in Chats |-> <<>>]
    /\ pending = {}

\* The remote side gets one more account before the search is made.
SearchAddAccount ==
    /\ Len(directory) < MaxAccounts
    /\ 1 \in DOMAIN userStates /\ "waiting_for_search" \in DOMAIN userStates[1]
    /\ \E acc \in SearchPool : directory' = Append(directory, acc)
    /\ UNCHANGED <<variant, AUTHORIZED_USERS, AUTHORIZED_USERNAMES, userStates, messages,
                   pending>>

\* The operator's text arrives in chat 1.
SearchText ==
    \E term \in SearchTerms, ok \in BOOLEAN :
        \E from \in Members(1) :
            /\ term \in SearchTerms
            /\ Commit(Text(1, from, term, ok))

SearchNext ==
    \/ SearchAddAccount
    \/ SearchText

SearchSpec == SearchInit /\ [][SearchNext]_vars

---------------------------------------------------------------------------
(* The user listing on its own: a directory that grows to MaxListed        *)
(* accounts with ids of the usual length while the menu is on screen, and  *)
(* the get_users and back_to_menu buttons of the one message of chat 1.    *)

\* Accounts of the listed directory (getUsers asks for 100).
MaxListed == 100

ServerName == <<":", "e", "x", "a", "m", "p", "l", "e", ".", "o", "r", "g">>

\* @<letter><letter>:example.org; every third account has a display name,
\* every fifth is an administrator, every seventh is deactivated.
ListingAccount(i) ==
    [name |-> <<"@", Letters[((i - 1) \div 15) + 1], Letters[((i - 1) % 15) + 1]>>
                 \o ServerName,
     displayname |-> IF i % 3 = 0
                     THEN <<"U", "s", "e", "r", " ", Letters[((i - 1) % 15) + 1]>>
                     ELSE NoStr,
     deactivated |-> (i % 7 = 0), admin |-> (i % 5 = 0)]

ListingInit ==
    /\ \E d \in Deployments :
          /\ variant = d[1]
          /\ AUTHORIZED_USERS = ParseUsers(d[2].users)
          /\ AUTHORIZED_USERNAMES = ParseUsernames(d[2].usernames)
    /\ directory = <<>>
    /\ userStates = <<>>
    /\ messages = [c \in Chats |->
                     IF c = 1
                     THEN << [text |-> Txt("welcome", NoStr, 0),
                              kb |-> createMainKeyboard(variant)] >>
                     ELSE <<>>]
    /\ pending = {}

\* One more account on the server while the menu is on screen.
ListingAddAccount ==
    /\ Len(directory) < MaxListed
    /\ messages[1][1].kb = createMainKeyboard(variant)
    /\ directory' = Append(directory, ListingAccount(Len(directory) + 1))
    /\ UNCHANGED <<variant, AUTHORIZED_USERS, AUTHORIZED_USERNAMES, userStates, messages,
                   pending>>

\* get_users or back_to_menu pressed on the message.
ListingPress ==
    \E ok \in BOOLEAN, from \in Members(1) :
        \E data \in {Btn("get_users", NoStr, 0), Btn("back_to_menu", NoStr, 0)} :
            /\ data \in Buttons(messages[1][1].kb)
            /\ LET r == Callback(1, from, 1, data, ok) IN
               /\ userStates' = r.us
               /\ messages' = r.msgs
               /\ directory' = r.dir
            /\ UNCHANGED <<variant, AUTHORIZED_USERS, AUTHORIZED_USERNAMES, pending>>

ListingNext ==
    \/ ListingAddAccount
    \/ ListingPress

ListingSpec == ListingInit /\ [][ListingNext]_vars

---------------------------------------------------------------------------
(* The handlers of part_000 and part_001 await by await.  The listeners    *)
(* are `async` functions handed to bot.on: each runs to its next `await`,  *)
(* is suspended there, and goes on when the awaited call has answered;     *)
(* whatever arrives meanwhile starts its own handler.  A suspended handler *)
(* is the update it handles and the await it stands at (pc):               *)
(*   'message' listener   searching -> searchUsers -> failed | none | last *)
(*   'callback_query'     ack -> prompt | loading -> call -> last          *)

\* Handlers suspended at the same time.
MaxPending == 2

\* The terms of the searches: one with matches, one without.
AsyncTerms == {TermC, TermNone}

Handler(kind, c, from, m, data, text, pc) ==
    [kind |-> kind, c |-> c, from |-> from, m |-> m, data |-> data,
     text |-> text, pc |-> pc]

\* What a step of a handler leaves: session map, messages, directory, and
\* the await the handler stands at next ("done" when it has returned).
Stp(us, msgs, dir, pc) == [us |-> us, msgs |-> msgs, dir |-> dir, pc |-> pc]

\* The 'message' listener after `await bot.sendMessage(... Searching ...)`.
\* x is the invocation with the state the step starts from and the answer
\* of the awaited call.
MessageStep(h, x) ==
    LET searchResults == searchUsers(x.dir, h.text, 0, SearchLimit)
        users == searchResults.users
    IN CASE h.pc = "searching" -> Stp(x.us, x.msgs, x.dir, "searchUsers")
         [] h.pc = "searchUsers" ->
              IF ~x.ok
              THEN Stp(x.us,
                       Edited(x.msgs, h.c, h.m, Txt("search_failed", NoStr, 0), <<BackRow>>),
                       x.dir, "failed")
              ELSE IF Len(users) = 0
              THEN Stp(x.us,
                       Edited(x.msgs, h.c, h.m, Txt("no_results", h.text, 0),
                              NoResultsKeyboard),
                       x.dir, "none")
              ELSE Stp(MapSet(x.us, h.c, [search_results |-> users,
                                          search_term |-> h.text,
                                          search_page |-> 0]),
                       Edited(x.msgs, h.c, h.m,
                              Txt("search_results", h.text, searchResults.total),
                              createSearchResultKeyboard(users, 0)),
                       x.dir, "last")
         [] h.pc \in {"failed", "none"} ->
              Stp(MapDelete(x.us, h.c), x.msgs, x.dir, "done")
         [] OTHER -> Stp(x.us, x.msgs, x.dir, "done")

\* The text shown while the list is fetched.
LoadingText(data) ==
    IF data.t = "get_users" THEN Txt("fetching", NoStr, 0) ELSE Txt("loading", NoStr, 0)

\* The 'callback_query' listener after `await bot.answerCallbackQuery(...)`.
CallbackStep(h, x) ==
    LET t == h.data.t
        r == Branch(x)
    IN CASE h.pc = "ack" ->
              IF t = "search_users" THEN Stp(x.us, r.msgs, x.dir, "prompt")
              ELSE IF t \in {"get_users", "deactivate_menu"}
              THEN Stp(x.us, Edited(x.msgs, h.c, h.m, LoadingText(h.data), <<>>),
                       x.dir, "loading")
              ELSE IF t = "userinfo" THEN Stp(x.us, x.msgs, x.dir, "call")
              ELSE Stp(r.us, r.msgs, r.dir, IF r.trace = <<>> THEN "done" ELSE "last")
         [] h.pc = "prompt" ->
              Stp(MapSet(x.us, h.c, [waiting_for_search |-> TRUE]), x.msgs, x.dir, "done")
         [] h.pc = "loading" -> Stp(x.us, x.msgs, x.dir, "call")
         [] h.pc = "call" -> Stp(r.us, r.msgs, r.dir, "last")
         [] OTHER -> Stp(x.us, x.msgs, x.dir, "done")

\* A suspended handler runs to its next await.
AsyncStep(h, x) ==
    IF h.kind = "message" THEN MessageStep(h, x) ELSE CallbackStep(h, x)

\* The invocation a suspended handler goes on with.
Resumed(h, ok) == Invocation(h.c, h.from, h.m, h.data, "", h.text, ok)

\* The deployments of part_000 and part_001 with an allow-list, and a
\* directory of four accounts.
AsyncInit ==
    /\ \E d \in Deployments :
          /\ d[1] \in {"complete", "ru"}
          /\ d[2] # EnvNone
          /\ variant = d[1]
          /\ AUTHORIZED_USERS = ParseUsers(d[2].users)
          /\ AUTHORIZED_USERNAMES = ParseUsernames(d[2].usernames)
    /\ directory = SubSeq(InitialDirectory, 1, 4)
    /\ userStates = <<>>
    /\ messages = [c \in Chats |-> <<>>]
    /\ pending = {}

\* /start: the handler sends the menu and returns without an await.
AsyncStart ==
    \E c \in Chats : \E from \in Members(c) :
        Commit(Command(c, from, "/start", NoStr, TRUE))

\* A text arrives: the 'message' listener runs up to its first await, the
\* sendMessage of the `Searching` message.
AsyncReceiveText ==
    \E c \in Chats, text \in AsyncTerms :
        \E from \in Members(c) :
            /\ isAuthorized(variant, from, AUTHORIZED_USERS, AUTHORIZED_USERNAMES)
            /\ c \in DOMAIN userStates /\ "waiting_for_search" \in DOMAIN userStates[c]
            /\ Cardinality(pending) < MaxPending
            /\ TotalMsgs(messages) < MaxMsgs
            /\ messages' = Sent(messages, c, Txt("searching", Trim(text), 0), <<>>)
            /\ pending' = pending \cup
                   {Handler("message", c, from, Len(messages[c]) + 1, NoData,
                            Trim(text), "searching")}
            /\ UNCHANGED <<variant, AUTHORIZED_USERS, AUTHORIZED_USERNAMES,
                           directory, userStates>>

\* The buttons pressed here: all but the confirm button, whose branch
\* neither reads nor writes the session.
AsyncPressable(kb) == {b \in Pressable(kb) : b.t # "confirm_deactivate"}

\* A button is pressed: requireAuthCallback lets the actor in and the
\* listener runs up to `await bot.answerCallbackQuery(callbackQuery.id)`.
AsyncReceivePress ==
    \E c \in Chats :
        \E from \in Members(c), m \in 1..Len(messages[c]) :
            \E data \in AsyncPressable(messages[c][m].kb) :
                /\ isAuthorized(variant, from, AUTHORIZED_USERS, AUTHORIZED_USERNAMES)
                /\ Cardinality(pending) < MaxPending
                /\ pending' = pending \cup
                       {Handler("callback", c, from, m, data, NoStr, "ack")}
                /\ UNCHANGED <<variant, AUTHORIZED_USERS, AUTHORIZED_USERNAMES,
                               directory, userStates, messages>>

\* The awaited call of a suspended handler answers and the handler goes on.
Resume(h, ok) ==
    LET s == AsyncStep(h, Resumed(h, ok)) IN
    /\ h \in pending
    /\ NumDeactivated(s.dir) <= MaxDeactivated
    /\ userStates' = s.us
    /\ messages' = s.msgs
    /\ directory' = s.dir
    /\ pending' = (pending \ {h})
                     \cup (IF s.pc = "done" THEN {} ELSE {[h EXCEPT !.pc = s.pc]})
    /\ UNCHANGED <<variant, AUTHORIZED_USERS, AUTHORIZED_USERNAMES>>

AsyncResume == \E h \in pending, ok \in BOOLEAN : Resume(h, ok)

AsyncNext ==
    \/ AsyncStart
    \/ AsyncReceiveText
    \/ AsyncReceivePress
    \/ AsyncResume

AsyncSpec == AsyncInit /\ [][AsyncNext]_vars

---------------------------------------------------------------------------
(* The bots when Telegram may reject the edit that reports a successful    *)
(* deactivation: the commands and buttons of Spec, and the confirm button  *)
(* pressed while that edit fails.                                          *)

\* A button pressed on message m while Telegram rejects the success message.
CallbackRejected(c, from, m, data, ok) ==
    CallbackQuery([Invocation(c, from, m, data, "", NoStr, ok) EXCEPT !.sent = FALSE])

HandleRejected ==
    \E c \in Chats, ok \in BOOLEAN :
        \E from \in Members(c), m \in 1..Len(messages[c]) :
            \E data \in Pressable(messages[c][m].kb) :
                /\ data.t = "confirm_deactivate"
                /\ Commit(CallbackRejected(c, from, m, data, ok))

RenderNext ==
    \/ HandleCommand
    \/ HandleCallback
    \/ HandleRejected

RenderSpec == Init /\ [][RenderNext]_vars

---------------------------------------------------------------------------
(* MatrixClient.searchUsers called on its own, with every start index and  *)
(* page size of a small range, on directories of a few accounts and on     *)
(* directories around the size of the superset page.  `pending` holds the  *)
(* call being awaited: its arguments and the object it resolves to.        *)

\* Sizes of the small directories, and accounts beyond the superset page.
MaxSmall == 4
MaxBeyond == 2

\* Start indices and page sizes passed by the caller.
MaxFrom == 3
MaxLimit == 3

\* @<letter><letter><letter>; every fourth account has the display name Cal.
CallAccount(i) ==
    [name |-> <<"@", Letters[(((i - 1) \div 225) % 15) + 1],
                Letters[(((i - 1) \div 15) % 15) + 1], Letters[((i - 1) % 15) + 1]>>,
     displayname |-> IF i % 4 = 0 THEN <<"C", "a", "l">> ELSE NoStr,
     deactivated |-> FALSE, admin |-> (i = 1)]

CallDirectory(n) == [i \in 1..n |-> CallAccount(i)]

CallSizes ==
    (0..MaxSmall) \cup ((SearchSupersetLimit - 1)..(SearchSupersetLimit + MaxBeyond))

CallTerms == {TermC, TermNone, <<"@">>}

CallInit ==
    /\ variant \in {"complete", "ru"}
    /\ AUTHORIZED_USERS = {}
    /\ AUTHORIZED_USERNAMES = {}
    /\ directory \in {CallDirectory(n) : n \in CallSizes}
    /\ userStates = <<>>
    /\ messages = [c \in Chats |-> <<>>]
    /\ pending = {}

\* return { users, total, from, limit } of searchUsers(searchTerm, from, limit)
SearchAnswer(searchTerm, from, limit) ==
    LET r == searchUsers(directory, searchTerm, from, limit) IN
    [searchTerm |-> searchTerm, users |-> r.users, total |-> r.total,
     from |-> from, limit |-> limit]

\* await matrixClient.searchUsers(searchTerm, from, limit)
SearchCall ==
    /\ pending = {}
    /\ \E searchTerm \in CallTerms, from \in 0..MaxFrom, limit \in 0..MaxLimit :
          pending' = {SearchAnswer(searchTerm, from, limit)}
    /\ UNCHANGED <<variant, AUTHORIZED_USERS, AUTHORIZED_USERNAMES, directory,
                   userStates, messages>>

\* The caller takes the answer.
SearchReturn ==
    /\ pending # {}
    /\ pending' = {}
    /\ UNCHANGED <<variant, AUTHORIZED_USERS, AUTHORIZED_USERNAMES, directory,
                   userStates, messages>>

CallNext ==
    \/ SearchCall
    \/ SearchReturn

CallSpec == CallInit /\ [][CallNext]_vars

---------------------------------------------------------------------------
(* The search of part_000 and part_001 in one chat, on directories of a    *)
(* few accounts and on directories around the page size of searchUsers:    *)
(* /start, the buttons of the search flow, and the search term.            *)

ResultSizes == (0..MaxSmall) \cup ((SearchLimit - 1)..(SearchLimit + MaxBeyond))

ResultsInit ==
    /\ \E d \in Deployments :
          /\ d[1] \in {"complete", "ru"} /\ d[2] # EnvNone
          /\ variant = d[1]
          /\ AUTHORIZED_USERS = ParseUsers(d[2].users)
          /\ AUTHORIZED_USERNAMES = ParseUsernames(d[2].usernames)
    /\ directory \in {CallDirectory(n) : n \in ResultSizes}
    /\ userStates = <<>>
    /\ messages = [c \in Chats |-> <<>>]
    /\ pending = {}

ResultsStart ==
    \E from \in Members(1) : Commit(Command(1, from, "/start", NoStr, TRUE))

\* The buttons of the search flow.
ResultsButtons ==
    {"search_users", "search_page", "userinfo", "back_to_search", "back_to_menu", "noop"}

ResultsPress ==
    \E ok \in BOOLEAN, from \in Members(1), m \in 1..Len(messages[1]) :
        \E data \in Pressable(messages[1][m].kb) :
            /\ data.t \in ResultsButtons
            /\ Commit(Callback(1, from, m, data, ok))

ResultsText ==
    \E ok \in BOOLEAN, from \in Members(1), text \in CallTerms :
        Commit(Text(1, from, text, ok))

ResultsNext ==
    \/ ResultsStart
    \/ ResultsPress
    \/ ResultsText

ResultsSpec == ResultsInit /\ [][ResultsNext]_vars

---------------------------------------------------------------------------
(* The updates that can arrive in the current state, and what the bot     *)
(* does for each of them.                                                  *)

\* A message from a member of a chat, and the answer of the remote side.
Senders ==
    {s \in [c : Chats, from : Actors, ok : BOOLEAN] : s.from \in Members(s.c)}

\* A press on message m of a chat by a member of it.
Presses ==
    {p \in [c : Chats, from : Actors, m : 1..MaxMsgs, ok : BOOLEAN] :
        p.from \in Members(p.c) /\ p.m <= Len(messages[p.c])}

\* The buttons of the message pressed, and its text.
ButtonsOf(p) == Buttons(messages[p.c][p.m].kb)
TextOf(p) == messages[p.c][p.m].text

\* What the bot does when button `data` of the message is pressed.
Pressed(p, data) == Callback(p.c, p.from, p.m, data, p.ok)

\* The events of one kind in a trace.
Events(trace, e) == {trace[i] : i \in {j \in DOMAIN trace : trace[j].e = e}}

Authorized(a) == isAuthorized(variant, a, AUTHORIZED_USERS, AUTHORIZED_USERNAMES)

\* The actor gets to the handler body of a button press.
Admitted(a) == PassesGate(variant, a, AUTHORIZED_USERS, AUTHORIZED_USERNAMES)

\* The session of a chat holds a deactivation candidate list.
HasUsers(us, c) == c \in DOMAIN us /\ "users" \in DOMAIN us[c]

---------------------------------------------------------------------------
(* Claims *)

\* C1: in every variant, isAuthorized returns false for every actor, with
\* or without a handle, when the id allow-list and the handle allow-list
\* are both empty.
C1_EmptyAllowListDeniesAll ==
    (AUTHORIZED_USERS = {} /\ AUTHORIZED_USERNAMES = {})
        => \A a \in Actors : ~Authorized(a)

\* A handler body ran: it rendered something other than the denial, made a
\* directory call, or changed the session map.
BodyRan(r) ==
    \/ \E ev \in Events(r.trace, "render") : ev.text.t # "access_denied"
    \/ Events(r.trace, "call") # {}
    \/ r.us # userStates

\* C2: in every variant, the body of every command handler, of the
\* free-text handler and of the callback handler runs only for an actor
\* that isAuthorized accepts.
C2_HandlersBehindGate ==
    /\ \A s \in Senders : \A cmd \in Commands : \A arg \in CommandArgs(cmd) :
          BodyRan(Command(s.c, s.from, cmd, arg, s.ok)) => Authorized(s.from)
    /\ \A s \in Senders : \A text \in Texts :
          BodyRan(Text(s.c, s.from, text, s.ok)) => Authorized(s.from)
    /\ \A p \in Presses : \A data \in ButtonsOf(p) :
          BodyRan(Pressed(p, data)) => Authorized(p.from)

\* The outcome of a denied update: nothing of the state changes, no
\* directory call, an unauthorized-access log entry, and no other rendering
\* than the fixed denial message, which carries no keyboard.
DeniedOnly(r) ==
    /\ r.us = userStates /\ r.msgs = messages /\ r.dir = directory
    /\ Events(r.trace, "call") = {}
    /\ \E ev \in Events(r.trace, "audit") : ev.op = "unauthorized"
    /\ \E ev \in Events(r.trace, "render") : ev.text = Txt("access_denied", NoStr, 0)
    /\ \A ev \in Events(r.trace, "render") :
          ev.text = Txt("access_denied", NoStr, 0) /\ ev.kb = <<>>

\* The outcome of a message the bot registers no handler for.
Ignored(r) ==
    /\ r.us = userStates /\ r.msgs = messages /\ r.dir = directory
    /\ r.trace = <<>>

Env ==
    (CHOOSE d \in Deployments :
        /\ d[1] = variant
        /\ ParseUsers(d[2].users) = AUTHORIZED_USERS
        /\ ParseUsernames(d[2].usernames) = AUTHORIZED_USERNAMES)[2]

\* C4: with a non-empty allow-list an actor is authorized iff its id is
\* listed, or it has a handle that equals a configured handle once both
\* are lower-cased (the configured `Al` authorizes the handle `AL`).
C4_AllowListMembership ==
    (AUTHORIZED_USERS # {} \/ AUTHORIZED_USERNAMES # {}) =>
        \A a \in Actors :
            Authorized(a) <=>
                \/ \E i \in DOMAIN Env.users : Env.users[i] = a.id
                \/ /\ a.username # NoStr
                   /\ \E i \in DOMAIN Env.usernames :
                         ToLowerCase(a.username) = ToLowerCase(Trim(Env.usernames[i]))

\* A bot with a handle allow-list has rendered a menu for the actor whose
\* handle differs from the configured one in case only.
C4_Witness ==
    /\ Gated(variant)
    /\ AUTHORIZED_USERS = {}
    /\ \E i \in DOMAIN Env.usernames : \E a \in Actors :
          /\ a.username # Trim(Env.usernames[i])
          /\ ToLowerCase(a.username) = ToLowerCase(Trim(Env.usernames[i]))
          /\ Authorized(a)
    /\ \E c \in Chats : messages[c] # <<>>

\* C5: every deactivateUser(id) call follows, in the same conversation, the
\* rendering of the confirmation prompt for the same id: the only button
\* whose press makes the call sits on a message that shows that prompt.
C5_ConfirmationBeforeDeactivation ==
    \A p \in Presses : \A data \in ButtonsOf(p) :
        \A ev \in Events(Pressed(p, data).trace, "call") :
            ev.op = "deactivateUser" =>
                /\ TextOf(p) = Txt("confirm", ev.arg, 0)
                /\ data = Btn("confirm_deactivate", ev.arg, 0)

\* A deactivation went through: the message reports it and the directory
\* holds the account as deactivated.
C5_Witness ==
    \E c \in Chats : \E m \in 1..Len(messages[c]) :
        /\ messages[c][m].text.t = "deactivated"
        /\ Exists(directory, messages[c][m].text.id)
        /\ Lookup(directory, messages[c][m].text.id).deactivated
        /\ ~Lookup(InitialDirectory, messages[c][m].text.id).deactivated

\* C6: the select step deactivate_<id> makes no directory call and renders
\* the confirmation prompt, whose confirm button carries the same id and
\* stands next to the cancel button.
C6_SelectOnlyPrompts ==
    \A p \in Presses : \A data \in ButtonsOf(p) :
        (data.t = "deactivate" /\ Admitted(p.from)) =>
            LET r == Pressed(p, data) IN
            /\ Events(r.trace, "call") = {}
            /\ r.dir = directory
            /\ \E ev \in Events(r.trace, "render") :
                  /\ ev.text = Txt("confirm", data.id, 0)
                  /\ ev.kb = r.msgs[p.c][p.m].kb
            /\ \E row \in DOMAIN r.msgs[p.c][p.m].kb :
                  r.msgs[p.c][p.m].kb[row] =
                      << Btn("confirm_deactivate", data.id, 0),
                         Btn("deactivate_menu", NoStr, 0) >>
            /\ \A b \in Buttons(r.msgs[p.c][p.m].kb) :
                  b.t = "confirm_deactivate" => b.id = data.id

\* A confirmation prompt is on screen and the bot has deactivated nothing.
C6_Witness ==
    /\ directory = InitialDirectory
    /\ \E c \in Chats : \E m \in 1..Len(messages[c]) :
          /\ messages[c][m].text.t = "confirm"
          /\ messages[c][m].kb = ConfirmKeyboard(messages[c][m].text.id)

\* The accounts of a list that are neither deactivated nor administrators.
Plain(u) == ~u.deactivated /\ ~u.admin

\* C7: in every variant the result set that deactivate_menu stores and
\* renders is, in order, the accounts getUsers returned that are neither
\* deactivated nor administrators.
C7_CandidatesExcludeAdmins ==
    \A p \in Presses :
        (Btn("deactivate_menu", NoStr, 0) \in ButtonsOf(p) /\ Admitted(p.from) /\ p.ok) =>
            LET r == Pressed(p, Btn("deactivate_menu", NoStr, 0))
                expected == SelectSeq(getUsers(directory), Plain)
            IN expected # <<>> =>
                  /\ HasUsers(r.us, p.c)
                  /\ r.us[p.c].users = expected
                  /\ \A b \in Buttons(r.msgs[p.c][p.m].kb) :
                        b.t = "deactivate" => Plain(Lookup(directory, b.id))

\* C8: part_000 and part_001 never call deactivateUser for an account that
\* is an administrator in the directory when the call is made.
C8_AdminsNeverDeactivated ==
    variant \in {"complete", "ru"} =>
        \A p \in Presses : \A data \in ButtonsOf(p) :
            \A ev \in Events(Pressed(p, data).trace, "call") :
                (ev.op = "deactivateUser" /\ Exists(directory, ev.arg))
                    => ~Lookup(directory, ev.arg).admin

\* C9: in part_000 and part_001 the detail view rendered for userinfo_<id>
\* offers deactivate_<id> iff the account is neither deactivated nor an
\* administrator, and else a noop button only.
C9_DetailViewButton ==
    variant \in {"complete", "ru"} =>
        \A p \in Presses : \A data \in ButtonsOf(p) :
            (data.t = "userinfo" /\ Admitted(p.from) /\ p.ok /\ Exists(directory, data.id)) =>
                LET kb == Pressed(p, data).msgs[p.c][p.m].kb IN
                IF Plain(Lookup(directory, data.id))
                THEN Btn("deactivate", data.id, 0) \in Buttons(kb)
                ELSE /\ Btn("noop", NoStr, 0) \in Buttons(kb)
                     /\ \A b \in Buttons(kb) : b.t # "deactivate"

\* C10: Cancel on the confirmation prompt brings the candidate list back at
\* the page the session is on, with the stored result set as it was.
C10_CancelKeepsPage ==
    \A p \in Presses :
        ( /\ TextOf(p).t = "confirm"
          /\ Len(messages[p.c]) = 1
          /\ HasUsers(userStates, p.c)
          /\ Admitted(p.from) /\ p.ok ) =>
            LET r == Pressed(p, Btn("deactivate_menu", NoStr, 0))
                state == userStates[p.c]
            IN /\ r.us = userStates
               /\ r.msgs[p.c][p.m].kb =
                     createUserSelectionKeyboard(variant, state.users, state.page)

\* C11: in every variant, Cancel on the confirmation prompt makes no
\* directory call, neither deactivateUser nor getUsers.
C11_CancelMakesNoCall ==
    \A p \in Presses :
        (TextOf(p).t = "confirm" /\ Admitted(p.from)) =>
            Events(Pressed(p, Btn("deactivate_menu", NoStr, 0)).trace, "call") = {}

\* The fields a session entry can hold: none of them names one target.
SessionFields ==
    {"users", "page", "search_results", "search_term", "search_page",
     "waiting_for_search"}

C13_PageWithinList ==
    \A c \in DOMAIN userStates :
        LET state == userStates[c] IN
        /\ ("users" \in DOMAIN state /\ state.users # <<>>) =>
              (0 <= state.page /\ state.page * UsersPerPage < Len(state.users))
        /\ ("search_results" \in DOMAIN state /\ state.search_results # <<>>) =>
              (0 <= state.search_page
               /\ state.search_page * UsersPerPage < Len(state.search_results))

\* C16: from any session state, back_to_menu removes the chat's entry from
\* userStates (no result set, page, term or search-input mode is left),
\* leaves the other chats' entries alone and renders the root menu.
C16_BackToMenuClearsSession ==
    \A p \in Presses :
        (Btn("back_to_menu", NoStr, 0) \in ButtonsOf(p) /\ Admitted(p.from)) =>
            LET r == Pressed(p, Btn("back_to_menu", NoStr, 0)) IN
            /\ p.c \notin DOMAIN r.us
            /\ r.us = MapDelete(userStates, p.c)
            /\ r.msgs[p.c][p.m].kb = createMainKeyboard(variant)
            /\ \E ev \in Events(r.trace, "render") : ev.kb = createMainKeyboard(variant)
            /\ Events(r.trace, "call") = {}
            /\ ~r.threw

\* A chat whose session holds a result set and whose message carries the
\* back-to-menu button: the press takes the entry away.
C16_Witness ==
    \E p \in Presses :
        /\ Admitted(p.from)
        /\ p.c \in DOMAIN userStates
        /\ DOMAIN userStates[p.c] \cap {"users", "search_results"} # {}
        /\ Btn("back_to_menu", NoStr, 0) \in ButtonsOf(p)
        /\ p.c \notin DOMAIN Pressed(p, Btn("back_to_menu", NoStr, 0)).us

\* C17: once /menu is handled the session of the chat is Idle: no entry
\* with a result set or the search-input mode is left, so a text sent
\* afterwards triggers no search.
C17_MenuCommandClearsSession ==
    \A s \in Senders :
        Admitted(s.from) =>
            LET r == Command(s.c, s.from, "/menu", NoStr, s.ok) IN
            /\ s.c \notin DOMAIN r.us
            /\ \A text \in Texts :
                  Events(OnMessage([Invocation(s.c, s.from, 0, NoData, "", text, s.ok)
                                      EXCEPT !.us = r.us, !.msgs = r.msgs, !.dir = r.dir]).trace,
                         "call") = {}

\* The session of a chat awaits the search term.
Waiting(us, c) == c \in DOMAIN us /\ "waiting_for_search" \in DOMAIN us[c]

\* What a search for `term` leaves in the session of chat c: the results,
\* the term and page 0, or no entry when nothing matches.
AfterSearch(us, c, term) ==
    LET res == searchUsers(directory, term, 0, SearchLimit) IN
    IF res.users # <<>>
    THEN c \in DOMAIN us
         /\ us[c] = [search_results |-> res.users, search_term |-> term, search_page |-> 0]
    ELSE c \notin DOMAIN us

\* C18: in bot-secure.js, part_000 and part_001, after search_users the
\* next non-empty text of the chat triggers searchUsers with the trimmed
\* text; with a match the session stores results, term and page 0, with
\* none it becomes Idle.
C18_TextAfterSearchUsersSearches ==
    variant \in {"secure", "complete", "ru"} =>
        \A s \in Senders : \A text \in Texts :
            (Waiting(userStates, s.c) /\ Authorized(s.from) /\ Trim(text) # <<>>) =>
                LET r == Text(s.c, s.from, text, s.ok) IN
                /\ EvCall("searchUsers", Trim(text), s.ok) \in Events(r.trace, "call")
                /\ s.ok => AfterSearch(r.us, s.c, Trim(text))

\* C19: in part_000 and part_001, /search <term> from an authorized actor
\* calls searchUsers with the trimmed term and ends normally; with a match
\* it stores results, term and page 0 and renders the result keyboard.
C19_SearchCommandSearches ==
    variant \in {"complete", "ru"} =>
        \A s \in Senders : \A arg \in CommandArgs("/search") :
            Authorized(s.from) =>
                LET r == Command(s.c, s.from, "/search", arg, s.ok)
                    res == searchUsers(directory, Trim(arg), 0, SearchLimit)
                IN /\ ~r.threw
                   /\ EvCall("searchUsers", Trim(arg), s.ok) \in Events(r.trace, "call")
                   /\ (s.ok /\ res.users # <<>>) =>
                         /\ AfterSearch(r.us, s.c, Trim(arg))
                         /\ \E ev \in Events(r.trace, "render") :
                               ev.kb = createSearchResultKeyboard(res.users, 0)

Positions(trace, e) == {j \in DOMAIN trace : trace[j].e = e}

\* C22: for every button event, in every variant, answerCallbackQuery is
\* called before any directory call made while the event is handled.
C22_AckBeforeCalls ==
    \A p \in Presses : \A data \in ButtonsOf(p) :
        LET trace == Pressed(p, data).trace IN
        \A j \in Positions(trace, "call") :
            \E i \in Positions(trace, "ack") : i < j

\* C23: every button event is acknowledged at least once, whichever way
\* the handler is left: its end, an early return on an empty list, the
\* catch after a failed directory call, the denial of the gate.
C23_AlwaysAcknowledged ==
    \A p \in Presses : \A data \in ButtonsOf(p) :
        Positions(Pressed(p, data).trace, "ack") # {}

\* A directory call of the handler failed.
CallFailed(r) == \E ev \in Events(r.trace, "call") : ~ev.ok

\* The session of chat c after the handler is what it was before, or gone;
\* the sessions of the other chats are what they were.
KeptOrRemoved(r, c) == r.us = userStates \/ r.us = MapDelete(userStates, c)

\* C28: when a directory call fails (getUsers of get_users and of
\* deactivate_menu, getUserInfo, searchUsers of a text and of /search,
\* deactivateUser), the session entry of the chat is what it was before the
\* action or is removed; an entry is written only by a handler none of
\* whose directory calls failed.
C28_FailedCallLeavesSession ==
    /\ \A p \in Presses : \A data \in ButtonsOf(p) :
          LET r == Pressed(p, data) IN CallFailed(r) => KeptOrRemoved(r, p.c)
    /\ \A s \in Senders : \A text \in Texts :
          LET r == Text(s.c, s.from, text, s.ok) IN CallFailed(r) => KeptOrRemoved(r, s.c)
    /\ \A s \in Senders : \A cmd \in Commands : \A arg \in CommandArgs(cmd) :
          LET r == Command(s.c, s.from, cmd, arg, s.ok) IN
          CallFailed(r) => KeptOrRemoved(r, s.c)

\* getUsers failed for a chat whose session holds a candidate list: the
\* error is on screen and the list is still there.
C28_Witness ==
    \E p \in Presses :
        /\ TextOf(p).t = "error"
        /\ HasUsers(userStates, p.c)
        /\ userStates[p.c].users # <<>>

\* The session of the chat holds the list a page button belongs to.
PageEntry(us, c, data) ==
    /\ c \in DOMAIN us
    /\ IF data.t = "search_page" THEN "search_results" \in DOMAIN us[c]
       ELSE "users" \in DOMAIN us[c]

\* C29: a page button pressed when the chat has no session entry of its
\* kind is handled without a throw, changes no session, makes no directory
\* call, and renders a notice.
C29_StalePageButtonNotice ==
    \A p \in Presses : \A data \in ButtonsOf(p) :
        ( /\ data.t \in {"users_page", "deactivate_page", "search_page"}
          /\ Admitted(p.from)
          /\ ~PageEntry(userStates, p.c, data) ) =>
            LET r == Pressed(p, data) IN
            /\ ~r.threw
            /\ r.us = userStates
            /\ Events(r.trace, "call") = {}
            /\ Events(r.trace, "render") # {}

\* The last rendering of a handler carries the back-to-menu button.
RecoveryShown(r) ==
    LET shown == Positions(r.trace, "render") IN
    /\ shown # {}
    /\ \E j \in shown :
          /\ \A i \in shown : i <= j
          /\ Btn("back_to_menu", NoStr, 0) \in Buttons(r.trace[j].kb)

\* C30: every error outcome, a failed directory call in a callback branch,
\* in /search or in a free-text search, and a blank search term, ends the
\* handler normally with a rendering that carries the back_to_menu button.
C30_ErrorsOfferBackToMenu ==
    /\ \A p \in Presses : \A data \in ButtonsOf(p) :
          LET r == Pressed(p, data) IN
          CallFailed(r) => (~r.threw /\ RecoveryShown(r))
    /\ \A s \in Senders : \A cmd \in Commands : \A arg \in CommandArgs(cmd) :
          LET r == Command(s.c, s.from, cmd, arg, s.ok) IN
          CallFailed(r) => (~r.threw /\ RecoveryShown(r))
    /\ \A s \in Senders : \A text \in Texts :
          LET r == Text(s.c, s.from, text, s.ok) IN
          (Authorized(s.from) /\ Waiting(userStates, s.c)
              /\ variant \in {"complete", "ru"} /\ text # NoStr
              /\ (CallFailed(r) \/ Trim(text) = <<>>))
              => (~r.threw /\ RecoveryShown(r))

\* The three shapes of a session entry, by their fields.
SessionShapes ==
    { {"waiting_for_search"}, {"users", "page"},
      {"search_results", "search_term", "search_page"} }

WellShaped(entry) ==
    /\ DOMAIN entry \in SessionShapes
    /\ ("users" \in DOMAIN entry) => entry.users # <<>>
    /\ ("search_results" \in DOMAIN entry) => entry.search_results # <<>>

\* C35: in every reachable state every entry of userStates has the fields
\* of exactly one of the shapes {waiting_for_search}, {users, page},
\* {search_results, search_term, search_page}, and the list it stores, if
\* any, is not empty.
C35_SessionShapes ==
    \A c \in DOMAIN userStates : WellShaped(userStates[c])

\* Two chats hold sessions of different shapes at once: a candidate list of
\* more than one page, turned to page 1, in one, and the flag of the search
\* prompt in the other.
C35_Witness ==
    \E c, d \in DOMAIN userStates :
        /\ DOMAIN userStates[c] = {"users", "page"}
        /\ Len(userStates[c].users) > UsersPerPage
        /\ userStates[c].page = 1
        /\ DOMAIN userStates[d] = {"waiting_for_search"}

\* The log holds an entry for the call: the deactivation entry with the id
\* of the target, or the access entry of the event, which names the actor
\* and the callback data `confirm_deactivate_<id>`.  Both are written by the
\* handler of the event and name its actor.
Logged(r, call) ==
    \E a \in Events(r.trace, "audit") :
        \/ a.op = "deactivated" /\ a.arg = call.arg
        \/ a.op = "authorized"

\* C36: in every variant, every deactivateUser call made on a confirm
\* event, answered or failed, has an entry in the log that names the actor
\* of the event and the id of the target.
C36_EveryDeactivationLogged ==
    \A p \in Presses : \A data \in ButtonsOf(p) :
        data.t = "confirm_deactivate" =>
            LET r == Pressed(p, data) IN
            \A call \in Events(r.trace, "call") :
                call.op = "deactivateUser" => Logged(r, call)

\* C37: no button event is acknowledged twice: on every path through the
\* callback handler answerCallbackQuery is called at most once for the
\* callback query of the event.
C37_AcknowledgedAtMostOnce ==
    \A p \in Presses : \A data \in ButtonsOf(p) :
        Cardinality(Positions(Pressed(p, data).trace, "ack")) <= 1

\* The denial messages and the unauthorized-access entries of a trace, by
\* their positions.
DenialMessages(trace) ==
    {j \in Positions(trace, "render") : trace[j].text.t = "access_denied"}

DenialEntries(trace) ==
    {j \in Positions(trace, "audit") : trace[j].op = "unauthorized"}

DeniedOnce(r) ==
    /\ Cardinality(DenialMessages(r.trace)) = 1
    /\ Cardinality(DenialEntries(r.trace)) = 1

\* C38: in part_000 and part_001, one incoming message from an actor who
\* is not authorized, a command or not, produces exactly one denial message
\* and exactly one unauthorized-access entry in the log.
C38_DeniedExactlyOnce ==
    \A s \in Senders :
        (variant \in {"complete", "ru"} /\ ~Authorized(s.from)) =>
            /\ \A text \in Texts : DeniedOnce(Text(s.c, s.from, text, s.ok))
            /\ \A cmd \in Commands : \A arg \in CommandArgs(cmd) :
                  DeniedOnce(Command(s.c, s.from, cmd, arg, s.ok))

\* The next message of the chat, handled from what a handler left.
TextAfter(s, r, text) ==
    OnMessage([Invocation(s.c, s.from, 0, NoData, "", text, s.ok)
                  EXCEPT !.us = r.us, !.msgs = r.msgs, !.dir = r.dir])

\* C39: a text of blanks only, received while the chat waits for a search
\* term, issues no searchUsers call and leaves the session waiting; in
\* part_000 and part_001 the next text that is not blank is then searched
\* for, trimmed.
C39_BlankTermKeepsWaiting ==
    \A s \in Senders :
        (Waiting(userStates, s.c) /\ Admitted(s.from)) =>
            LET r == Text(s.c, s.from, Blank, s.ok) IN
            /\ Events(r.trace, "call") = {}
            /\ ~r.threw
            /\ r.us = userStates
            /\ Waiting(r.us, s.c)
            /\ variant \in {"complete", "ru"} =>
                  /\ \E ev \in Events(r.trace, "render") : ev.text.t = "invalid_term"
                  /\ \A text \in Texts :
                        Trim(text) # <<>> =>
                            EvCall("searchUsers", Trim(text), s.ok)
                                \in Events(TextAfter(s, r, text).trace, "call")

\* A chat of part_000 or part_001 waits for a search term, with accounts in
\* the directory that the term ` @` matches: the blank text is answered with
\* the invalid-term message and the handler ends, and the text ` @` sent
\* after it stores search results.
C39_Witness ==
    /\ variant \in {"complete", "ru"}
    /\ \E s \in Senders :
          /\ Waiting(userStates, s.c) /\ Admitted(s.from) /\ s.ok
          /\ LET r == Text(s.c, s.from, Blank, s.ok) IN
             /\ ~r.threw
             /\ \E ev \in Events(r.trace, "render") : ev.text.t = "invalid_term"
             /\ s.c \in DOMAIN TextAfter(s, r, TermAll).us
             /\ "search_results" \in DOMAIN TextAfter(s, r, TermAll).us[s.c]

\* C40: in part_000 and part_001, a message without text (photo, sticker)
\* from an authorized actor, received while the chat waits for a search
\* term, is ignored: the handler ends normally without throwing, makes no
\* directory call and leaves the session entry as it is.
C40_NoTextIsIgnored ==
    variant \in {"complete", "ru"} =>
        \A s \in Senders :
            (Waiting(userStates, s.c) /\ Authorized(s.from)) =>
                LET r == Text(s.c, s.from, NoStr, s.ok) IN
                /\ ~r.threw
                /\ Events(r.trace, "call") = {}
                /\ r.us = userStates

---------------------------------------------------------------------------
(* Claims on the keyboard builders, under PagingSpec *)

\* The user rows of a keyboard, and the ids they carry, in order.
IsUserRow(row) == row[1].t \in {"deactivate", "userinfo"}
RowIds(kb) ==
    LET rows == SelectSeq(kb, IsUserRow) IN [i \in 1..Len(rows) |-> rows[i][1].id]

\* The ids of the items at the 0-based indices lo .. hi - 1 of a list.
IdsBetween(list, lo, hi) ==
    IF lo < hi THEN [i \in 1..(hi - lo) |-> list[lo + i].name] ELSE <<>>

\* The last page of a list: the last non-empty one, page 0 for no items.
LastPage(list) == IF list = <<>> THEN 0 ELSE (Len(list) - 1) \div UsersPerPage

\* The user rows of pages q .. last of a session entry, one after another.
RECURSIVE PagesFrom(_, _, _, _)
PagesFrom(v, state, q, last) ==
    IF q > last THEN <<>>
    ELSE RowIds(PagingKeyboard(v, PagingState(
                    IF "users" \in DOMAIN state THEN "users" ELSE "search",
                    PagingList(state), q)))
         \o PagesFrom(v, state, q + 1, last)

\* C14: for every list and page p >= 0 the user buttons of both builders
\* are the items at indices p*10 .. min(p*10+10, len)-1, at most 10 of
\* them, and the pages 0 .. lastPage one after another are the list.
C14_PagesPartitionTheList ==
    LET state == userStates[1]
        list == PagingList(state)
        page == PagingPage(state)
        ids == RowIds(messages[1][1].kb)
    IN /\ ids = IdsBetween(list, page * UsersPerPage,
                           Min(page * UsersPerPage + UsersPerPage, Len(list)))
       /\ Len(ids) <= UsersPerPage
       /\ PagesFrom(variant, state, 0, LastPage(list)) = IdsBetween(list, 0, Len(list))

\* 25 items shown by the search builder at page 2: five user rows.
C14_Witness ==
    /\ "search_results" \in DOMAIN userStates[1]
    /\ Len(userStates[1].search_results) = 25
    /\ userStates[1].search_page = 2
    /\ Len(RowIds(messages[1][1].kb)) = 5

\* The Previous / Next buttons of the rendered keyboard.
NavPrefix == IF "users" \in DOMAIN userStates[1] THEN PagePrefix(variant) ELSE "search_page"
NavButtons == {b \in Buttons(messages[1][1].kb) : b.t = NavPrefix}
NextAbsent == \A b \in NavButtons : b.n # PagingPage(userStates[1]) + 1

\* C15 as stated: Previous iff page > 0, Next iff min(page*10+10, len) < len,
\* and for every page >= 0 of a non-empty list Next is absent iff the page
\* is the last non-empty page.
C15_NextAbsentIffLastPage ==
    LET list == PagingList(userStates[1])
        page == PagingPage(userStates[1])
    IN list # <<>> => (NextAbsent <=> page = LastPage(list))

\* C15: the keyboard shows Previous (to page-1) iff page > 0 and Next (to
\* page+1) iff min(page*10+10, len) < len, and nothing else with the page
\* prefix; Next is absent iff the page is the last page or lies beyond it.
C15_NavButtons ==
    LET list == PagingList(userStates[1])
        page == PagingPage(userStates[1])
        endIndex == Min(page * UsersPerPage + UsersPerPage, Len(list))
    IN /\ NavButtons =
            (IF page > 0 THEN {Btn(NavPrefix, NoStr, page - 1)} ELSE {})
            \cup (IF endIndex < Len(list) THEN {Btn(NavPrefix, NoStr, page + 1)} ELSE {})
       /\ NextAbsent <=> page >= LastPage(list)

\* 25 items at page 2: five user rows, Previous to page 1, no Next.
C15_Witness ==
    /\ Len(PagingList(userStates[1])) = 25
    /\ PagingPage(userStates[1]) = 2
    /\ Len(RowIds(messages[1][1].kb)) = 5
    /\ NavButtons = {Btn(NavPrefix, NoStr, 1)}

---------------------------------------------------------------------------
(* Claims on searchUsers, under SearchSpec *)

\* s holds t somewhere, letter case set aside.
ContainsIgnoringCase(s, t) ==
    \E i \in 1..(Len(s) - Len(t) + 1) :
        \A k \in 1..Len(t) : LowerChar(s[i + k - 1]) = LowerChar(t[k])

\* The matching rule as stated: the id holds the term, or the display name,
\* when there is one, holds the term, or the id is the term.
Selected(account, term) ==
    \/ ContainsIgnoringCase(account.name, term)
    \/ (account.displayname # NoStr /\ ContainsIgnoringCase(account.displayname, term))
    \/ account.name = term

\* The accounts of a list the rule selects, in their order.
SelectedOf(list, term) ==
    LET Sel(u) == Selected(u, term) IN SelectSeq(list, Sel)

---------------------------------------------------------------------------
(* Claims on the user listing, under ListingSpec *)

\* C24: in every variant the user listing rendered by get_users is cut
\* when it is too long, so that the text handed to the transport is never
\* longer than the 4096 characters of the message limit.
C24_ListingWithinLimit ==
    \A c \in Chats : \A m \in 1..Len(messages[c]) :
        messages[c][m].text.t = "users_list" =>
            messages[c][m].text.len <= MessageLimit

---------------------------------------------------------------------------
(* Claims on the interleaving of handlers, under AsyncSpec *)

\* C25: within one conversation the handlers are strictly sequential: no
\* handler of a chat starts or resumes while another handler of the same
\* chat is suspended on a directory or transport call.
C25_OneHandlerPerChat ==
    \A h1, h2 \in pending : h1.c = h2.c => h1 = h2

\* The session entry of a chat, or nothing.
Entry(us, c) == IF c \in DOMAIN us THEN <<us[c]>> ELSE <<>>

\* A step changes the entry of a chat only when it is a step of a handler
\* of that chat.
WritesOwnEntry ==
    \A b \in Chats :
        Entry(userStates', b) # Entry(userStates, b) =>
            /\ pending \ pending' # {}
            /\ \A h \in pending \ pending' : h.c = b

\* What the next step of a suspended handler does to its own chat does not
\* depend on the entry of another chat, and leaves that entry as it is.
SameStep(h, s, t) ==
    /\ Entry(s.us, h.c) = Entry(t.us, h.c)
    /\ s.msgs = t.msgs /\ s.dir = t.dir /\ s.pc = t.pc

ReadsOwnEntry ==
    \A h \in pending : \A ok \in BOOLEAN : \A b \in Chats \ {h.c} :
        LET x == Resumed(h, ok)
            held == [x EXCEPT !.us = MapSet(x.us, b, [waiting_for_search |-> TRUE])]
            none == [x EXCEPT !.us = MapDelete(x.us, b)]
        IN /\ SameStep(h, AsyncStep(h, x), AsyncStep(h, held))
           /\ SameStep(h, AsyncStep(h, x), AsyncStep(h, none))
           /\ Entry(AsyncStep(h, x).us, b) = Entry(userStates, b)
           /\ Entry(AsyncStep(h, held).us, b) = << [waiting_for_search |-> TRUE] >>
           /\ Entry(AsyncStep(h, none).us, b) = <<>>

\* C26: under any interleaving with the handlers of other chats, a step
\* of a handler of chat A neither reads nor writes nor deletes the entry of
\* another chat B: the entry of a chat changes only in steps of its own
\* handlers, and what such a step does is the same whatever B holds.
C26_SessionsAreIndependent == []ReadsOwnEntry /\ [][WritesOwnEntry]_vars

\* Handlers of both chats are suspended at once, back_to_menu among them,
\* while each chat holds an entry of its own.
C26_Witness ==
    /\ 1 \in DOMAIN userStates /\ 2 \in DOMAIN userStates
    /\ userStates[1] # userStates[2]
    /\ \E h1, h2 \in pending :
          /\ h1.c = 1 /\ h2.c = 2
          /\ h1.data.t = "back_to_menu" /\ h1.pc = "ack"

\* A suspended handler run to its end from the state st, its steps one
\* after another, the awaited calls answering `ok`.
RECURSIVE Finish(_, _, _)
Finish(h, ok, st) ==
    LET x == [Resumed(h, ok) EXCEPT !.us = st.us, !.msgs = st.msgs, !.dir = st.dir]
        s == AsyncStep(h, x)
    IN IF s.pc = "done" THEN s ELSE Finish([h EXCEPT !.pc = s.pc], ok, s)

\* C27: a search of a chat awaits searchUsers and back_to_menu of the same
\* chat has been acknowledged: when back_to_menu is handled to its end
\* while the search still waits, and the search then goes on to its end,
\* the chat has no session entry.
C27_ClearedStaysCleared ==
    \A h, b \in pending : \A ok \in BOOLEAN :
        ( /\ h.kind = "message" /\ h.pc = "searchUsers"
          /\ b.kind = "callback" /\ b.data.t = "back_to_menu" /\ b.pc = "ack"
          /\ b.c = h.c ) =>
            LET now == Stp(userStates, messages, directory, "")
                cleared == Finish(b, TRUE, now)
            IN /\ h.c \notin DOMAIN cleared.us
               /\ h.c \notin DOMAIN Finish(h, ok, cleared).us

---------------------------------------------------------------------------
(* Claims on the confirm branch when an edit is rejected, under RenderSpec *)

\* A confirm button on screen, pressed with the call answered or not and
\* the success message accepted or not.
ConfirmPresses ==
    { p \in Presses :
        \E data \in ButtonsOf(p) : data.t = "confirm_deactivate" }

ConfirmOutcomes(p) ==
    { CallbackQuery([Invocation(p.c, p.from, p.m, data, "", NoStr, p.ok)
                       EXCEPT !.sent = sent]) :
        data \in {d \in ButtonsOf(p) : d.t = "confirm_deactivate"},
        sent \in BOOLEAN }

Deactivates(r) ==
    \E ev \in Events(r.trace, "call") : ev.op = "deactivateUser" /\ ev.ok

ToldFailed(r) ==
    \E ev \in Events(r.trace, "render") : ev.text.t = "deactivation_failed"

\* C31: whenever the deactivateUser call of a confirm event succeeded, no
\* 'Deactivation Failed' message is rendered by that event, also when the
\* edit of the success message is rejected.
C31_FailedOnlyWhenCallFailed ==
    \A p \in ConfirmPresses : \A r \in ConfirmOutcomes(p) :
        Deactivates(r) => ~ToldFailed(r)

---------------------------------------------------------------------------
(* Claims on searchUsers called on its own, under CallSpec *)

\* The positions, in the superset page fetched with from = 0 and
\* limit = 1000, of the accounts that match the term.
MatchingPositions(searchTerm) ==
    {i \in 1..Min(Len(directory), SearchSupersetLimit) :
        Matches(directory[i], searchTerm)}

\* The answer holds the accounts number from + 1 .. min(from + limit, total)
\* of the matching accounts, counted in the order of the superset page.
IsFilteredSlice(a) ==
    LET matching == MatchingPositions(a.searchTerm)
        end == Min(a.from + a.limit, a.total)
    IN /\ a.total = Cardinality(matching)
       /\ Len(a.users) = (IF end > a.from THEN end - a.from ELSE 0)
       /\ \A k \in 1..Len(a.users) :
             \E i \in matching :
                /\ directory[i] = a.users[k]
                /\ Cardinality({j \in matching : j < i}) = a.from + k - 1

\* C32: searchUsers(term, from, limit) answers with total = the number of
\* matching accounts of the superset page (from 0, limit 1000) and with
\* users = the matching accounts from + 1 .. min(from + limit, total) of
\* that page, in its order, whatever from and limit the caller passes.
C32_SearchPaginatesLocally ==
    \A a \in pending : IsFilteredSlice(a)

\* A call with from > 0 on a directory larger than the superset page whose
\* answer is cut at both ends: accounts are skipped at the start, the page
\* size ends the answer, and accounts beyond the superset page match too.
C32_Witness ==
    \E a \in pending :
        /\ a.from > 0
        /\ Len(a.users) = a.limit
        /\ a.limit > 1
        /\ a.total > a.from + a.limit
        /\ Len(directory) > SearchSupersetLimit
        /\ a.total = SearchSupersetLimit

---------------------------------------------------------------------------
(* Claims on the search flow, under ResultsSpec *)

\* The counts a handler shows in its `Found N users` messages.
Announced(r) ==
    {ev.text.n : ev \in {e \in Events(r.trace, "render") : e.text.t = "search_results"}}

\* The accounts shown by the pages 0 .. last of a stored result set.
ReachableIds(results) ==
    UNION { {id : id \in {RowIds(createSearchResultKeyboard(results, q))[i] :
                              i \in 1..Len(RowIds(createSearchResultKeyboard(results, q)))}} :
            q \in 0..LastPage(results) }

\* back_to_search pressed on the result message the search left.
BackToSearchAfter(s, r) ==
    CallbackQuery([Invocation(s.c, s.from, Len(r.msgs[s.c]), Btn("back_to_search", NoStr, 0),
                              "", NoStr, TRUE)
                      EXCEPT !.us = r.us, !.msgs = r.msgs])

\* C33: for every number of matching accounts, the count announced with
\* the search results is the number of accounts stored in the session and
\* shown by its pages, and back_to_search shows the same count again.
C33_AnnouncedCountIsStoredCount ==
    \A s \in Senders : \A term \in CallTerms :
        (s.ok /\ Waiting(userStates, s.c) /\ TotalMsgs(messages) < MaxMsgs) =>
            LET r == Text(s.c, s.from, term, TRUE) IN
            (s.c \in DOMAIN r.us /\ "search_results" \in DOMAIN r.us[s.c]) =>
                LET stored == r.us[s.c].search_results IN
                /\ Announced(r) = {Len(stored)}
                /\ Cardinality(ReachableIds(stored)) = Len(stored)
                /\ Announced(BackToSearchAfter(s, r)) = Announced(r)

\* back_to_search pressed on the message a handler has just edited.
BackToSearchOn(p, r) ==
    CallbackQuery([Invocation(p.c, p.from, p.m, Btn("back_to_search", NoStr, 0),
                              "", NoStr, TRUE)
                      EXCEPT !.us = r.us, !.msgs = r.msgs])

\* The handler renders the page `state.search_page` of the stored results
\* of `state` under their term.
RendersStored(r, state) ==
    LET lo == state.search_page * UsersPerPage
        hi == Min(lo + UsersPerPage, Len(state.search_results))
    IN \E ev \in Events(r.trace, "render") :
          /\ ev.text.t = "search_results"
          /\ ev.text.id = state.search_term
          /\ RowIds(ev.kb) = IdsBetween(state.search_results, lo, hi)

\* C34: a userinfo_<id> event leaves the session map as it is, whether
\* getUserInfo succeeds or fails, and a back_to_search event after it
\* renders the stored results, term and page of before the inspection
\* and leaves the entry as it is.
C34_DetailIsAnOverlay ==
    \A p \in Presses : \A data \in ButtonsOf(p) :
        (data.t = "userinfo" /\ Admitted(p.from)) =>
            LET r == Pressed(p, data) IN
            /\ r.us = userStates
            /\ (p.c \in DOMAIN userStates /\ "search_results" \in DOMAIN userStates[p.c]) =>
                  LET b == BackToSearchOn(p, r) IN
                  /\ b.us = userStates
                  /\ RendersStored(b, userStates[p.c])

\* Page 1 of a stored result set of 100 accounts was inspected and shown
\* again by back_to_search: the message counts the 100 stored accounts (the
\* search itself announced the 102 matches) and shows the rows of page 1.
C34_Witness ==
    /\ Len(directory) = SearchLimit + 2
    /\ 1 \in DOMAIN userStates /\ "search_results" \in DOMAIN userStates[1]
    /\ userStates[1].search_page = 1
    /\ \E m \in 1..Len(messages[1]) :
          /\ messages[1][m].text = Txt("search_results", <<"@">>, SearchLimit)
          /\ RowIds(messages[1][m].kb)
                = IdsBetween(userStates[1].search_results, UsersPerPage, 2 * UsersPerPage)

=============================================================================
